---- MODULE Spec2Model ----
(***************************************************************************)
(* Dossier queue of intelligenceforgood/proto: the SQLite-backed           *)
(* DossierQueueStore (src/src/i4g/store/dossier_queue_store.py) and the    *)
(* DossierQueueProcessor.process_batch loop that leases entries from it   *)
(* (src/src/i4g/reports/dossier_queue_processor.py).                       *)
(*                                                                         *)
(* The table dossier_queue is a set of rows.  Every statement the store   *)
(* runs is one step; lease_next, the only multi-statement transaction, is *)
(* three steps (BEGIN IMMEDIATE, SELECT, UPDATE+COMMIT) under the          *)
(* database's write lock.                                                  *)
(***************************************************************************)
EXTENDS Integers, Sequences, FiniteSets, TLC

\* ------------------------------------------------------------------ bounds
NumPlans == 2       \* distinct plan identifiers
NumWorkers == 2     \* concurrent worker processes
NumBodies == 2      \* distinct plan contents per identifier
MaxClock == 1       \* timestamps are 0..MaxClock
MaxBatch == 1       \* largest batch_size of a worker running beside others
MaxSoloBatch == 2   \* largest batch_size of a batch running alone
MaxCalls == 1       \* lease_next calls per direct caller
MaxCandidates == 2  \* longest candidate list given to the bundle builder
MaxCases == 2       \* largest max_cases_per_dossier
NumFiles == 2       \* artifact paths on disk
NumContents == 2    \* distinct file contents
MaxEntries == 2     \* longest list of artifact entries of a manifest
MaxKeys == 2        \* most keys present in a metadata mapping

PlanIds == 1..NumPlans
Workers == 1..NumWorkers
Bodies == 1..NumBodies
Times == 0..MaxClock

Min(a, b) == IF a <= b THEN a ELSE b

\* ------------------------------------------------------------ column values
NULL == "<NULL>"
Priorities == {"normal"}
WarningLists == {<< >>, <<"case-warning">>}
NoWarnings == <<NULL>>    \* warnings=None, among lists of warnings
GenErrors == {"generation failed"}
StoreError == "database is locked"
ReporterError == "reporter unavailable"

\* json.dumps / json.loads of a list of warnings (the warnings column is TEXT)
JsonDumps(ws) ==
    IF ws = << >> THEN "[]" ELSE "[\"case-warning\"]"

JsonLoads(text) ==
    IF text = "[]" THEN << >> ELSE <<"case-warning">>

\* DossierPlan: the identifier and the rest of the plan (its body)
DossierPlan(id, body) == [plan_id |-> id, body |-> body]

\* plan.to_dict() / DossierPlan.from_dict(payload), as far as the queue reads them
ToDict(plan) == [plan_id |-> plan.plan_id, body |-> plan.body]

FromDict(payload) == DossierPlan(payload.plan_id, payload.body)

NoPlan == DossierPlan(0, 0)

\* ------------------------------------------------------------------- state
VARIABLES
    queue,      \* the rows of table dossier_queue
    lock,       \* the connection holding the write lock (0: none)
    now,        \* datetime.now(timezone.utc)
    wk,         \* per worker: the frame of its process_batch / lease_next call
    got,        \* per direct caller: the plan ids its lease_next calls returned
    queue0,     \* the table when the solo batch was called
    last,       \* the last mark_complete / mark_failed / reset call made directly
    holder,     \* per plan id: the worker lease_next returned the entry to, with
                \* no reset or enqueue_plan of the plan id since (0: none)
    bb,         \* a BundleBuilder call: its arguments and what it returned
    sg,         \* the artifact files on disk, their signature manifest and its
                \* verification report
    bm          \* a compute_bundle_metrics call: its metadata and what it returned

\* the variables of the queue and its workers
queueVars == <<queue, lock, now, wk, got, queue0, last, holder>>

\* the variables outside the queue
others == <<bb, sg, bm>>

vars == <<queueVars, others>>

\* nothing outside the queue is in use
Unused == "unused"

OthersUnused == bb = Unused /\ sg = Unused /\ bm = Unused

\* a direct call of a status method: its name and its plan_id
Call(op, id) == [op |-> op, plan_id |-> id]

NoCall == Call("none", 0)

\* the entry of plan id is no worker's any more
Release(h, id) == [i \in DOMAIN h |-> IF i = id THEN 0 ELSE h[i]]

\* worker w has finished the entry of plan id, if it was w's
ReleaseBy(h, w, id) == [i \in DOMAIN h |-> IF i = id /\ h[i] = w THEN 0 ELSE h[i]]

NoRow ==
    [plan_id |-> 0, status |-> "none", priority |-> "none", payload |-> ToDict(NoPlan),
     queued_at |-> 0, updated_at |-> 0, error |-> NULL, warnings |-> NULL]

Statuses == {"pending", "leased", "completed", "failed"}

RowsOf(q, id) == {r \in q : r.plan_id = id}

Pending(q) == {r \in q : r.status = "pending"}

\* ------------------------------------------------------- store statements
\* the row enqueue_plan inserts: VALUES (?, 'pending', ?, ?, ?, ?, NULL), error NULL
InsertedRow(plan, priority, t) ==
    [plan_id |-> plan.plan_id, status |-> "pending", priority |-> priority,
     payload |-> ToDict(plan), queued_at |-> t, updated_at |-> t,
     error |-> NULL, warnings |-> NULL]

\* (mutant) ON CONFLICT replaces the payload and the times only
Upsert_KeepStatus(q, plan, priority, t) ==
    IF RowsOf(q, plan.plan_id) = {}
    THEN q \cup {InsertedRow(plan, priority, t)}
    ELSE {IF r.plan_id = plan.plan_id
          THEN [r EXCEPT !.priority = priority, !.payload = ToDict(plan),
                         !.queued_at = t, !.updated_at = t]
          ELSE r : r \in q}

\* INSERT ... ON CONFLICT(plan_id) DO UPDATE of enqueue_plan
Upsert(q, plan, priority, t) ==
    IF RowsOf(q, plan.plan_id) = {}
    THEN q \cup {InsertedRow(plan, priority, t)}
    ELSE {IF r.plan_id = plan.plan_id
              THEN [r EXCEPT !.status = "pending", !.priority = priority,
                             !.payload = ToDict(plan), !.queued_at = t,
                             !.updated_at = t, !.error = NULL, !.warnings = NULL]
              ELSE r : r \in q}

\* (mutant) _update_status leaves the error column out of the UPDATE
UpdateStatus_KeepError(q, id, status, error, warnings, t) ==
    {IF r.plan_id = id
     THEN [r EXCEPT !.status = status, !.updated_at = t,
                    !.warnings = IF warnings = NoWarnings THEN NULL ELSE JsonDumps(warnings)]
     ELSE r : r \in q}

\* (mutant) _update_status writes the row with INSERT OR REPLACE: a plan_id
\* without a row gets one
UpdateStatus_InsertMissing(q, id, status, error, warnings, t) ==
    LET warnings_payload == IF warnings = NoWarnings THEN NULL ELSE JsonDumps(warnings)
    IN  IF RowsOf(q, id) = {}
        THEN q \cup {[InsertedRow(DossierPlan(id, 0), "normal", t) EXCEPT
                        !.status = status, !.error = error, !.warnings = warnings_payload]}
        ELSE {IF r.plan_id = id
              THEN [r EXCEPT !.status = status, !.updated_at = t,
                             !.error = error, !.warnings = warnings_payload]
              ELSE r : r \in q}

\* UPDATE ... SET status, updated_at, error, warnings WHERE plan_id=? of _update_status
\* (warnings: NoWarnings for None, else the list)
UpdateStatus(q, id, status, error, warnings, t) ==
    LET warnings_payload == IF warnings = NoWarnings THEN NULL ELSE JsonDumps(warnings)
    IN  {IF r.plan_id = id
         THEN [r EXCEPT !.status = status, !.updated_at = t,
                        !.error = error, !.warnings = warnings_payload]
         ELSE r : r \in q}

\* (mutant) ORDER BY queued_at DESC: the entry enqueued last comes first
SelectNextPending_Newest(q) ==
    {r \in Pending(q) : \A o \in Pending(q) : r.queued_at >= o.queued_at}

\* (mutant) the SELECT takes every entry that is not completed
SelectNextPending_Unfinished(q) ==
    {r \in q : r.status # "completed" /\ \A o \in Pending(q) : r.queued_at <= o.queued_at}

\* SELECT ... WHERE status='pending' ORDER BY queued_at ASC LIMIT 1: the rows the
\* statement may return (rows with equal queued_at come in no defined order)
SelectNextPending(q) ==
    {r \in Pending(q) : \A o \in Pending(q) : r.queued_at <= o.queued_at}

\* (mutant) the UPDATE of lease_next sets updated_at only
UpdateLeased_KeepStatus(q, id, t) ==
    {IF r.plan_id = id THEN [r EXCEPT !.updated_at = t] ELSE r : r \in q}

\* UPDATE ... SET status='leased', updated_at=? WHERE plan_id=? of lease_next
UpdateLeased(q, id, t) ==
    {IF r.plan_id = id THEN [r EXCEPT !.status = "leased", !.updated_at = t] ELSE r
     : r \in q}

\* _row_to_dict of a row selected with status and error (get_plan, list_plans)
RowToDict(r) ==
    [plan_id |-> r.plan_id, priority |-> r.priority, payload |-> r.payload,
     queued_at |-> r.queued_at, updated_at |-> r.updated_at,
     warnings |-> IF r.warnings = NULL THEN << >> ELSE JsonLoads(r.warnings),
     status |-> r.status, error |-> r.error]

\* _row_to_dict of the six columns lease_next selects
LeasedDict(r) ==
    [plan_id |-> r.plan_id, priority |-> r.priority, payload |-> r.payload,
     queued_at |-> r.queued_at, updated_at |-> r.updated_at,
     warnings |-> IF r.warnings = NULL THEN << >> ELSE JsonLoads(r.warnings)]

None == LeasedDict(NoRow)

\* get_plan(plan_id): the entry, or NoRow's dict for None
GetPlan(q, id) ==
    IF RowsOf(q, id) = {} THEN RowToDict(NoRow)
    ELSE RowToDict(CHOOSE r \in RowsOf(q, id) : TRUE)

\* (mutant) BEGIN without a lock: the transaction does not exclude other writers
LockFree_NoLock == TRUE

\* BEGIN IMMEDIATE and every single-statement write need the write lock
LockFree == lock = 0

\* -------------------------------------------------------------- lease_next
Frame(w) == wk[w]

Put(w, frame) == wk' = [wk EXCEPT ![w] = frame]

IdleFrame ==
    [pc |-> "idle", caller |-> "none", batch_size |-> 0, dry_run |-> FALSE,
     reporter |-> "none", iter |-> 0, processed |-> 0, completed |-> 0, failed |-> 0,
     plans |-> << >>, row |-> NoRow, leased |-> None, plan |-> NoPlan,
     result |-> << >>, exc |-> NULL, raised |-> NULL]

\* conn.execute("BEGIN IMMEDIATE")
LeaseBegin(w) ==
    /\ Frame(w).pc = "lease"
    /\ LockFree
    /\ lock' = w
    /\ Put(w, [Frame(w) EXCEPT !.pc = "lease_sel"])
    /\ UNCHANGED <<queue, now, got, queue0, last, holder, others>>

\* the SELECT; with no row: commit and return None
LeaseSelect(w) ==
    /\ Frame(w).pc = "lease_sel"
    /\ IF SelectNextPending(queue) = {}
       THEN /\ lock' = 0
            /\ Put(w, [Frame(w) EXCEPT !.pc = "lease_ret", !.leased = None])
       ELSE /\ \E r \in SelectNextPending(queue) :
                 Put(w, [Frame(w) EXCEPT !.pc = "lease_upd", !.row = r])
            /\ UNCHANGED lock
    /\ UNCHANGED <<queue, now, got, queue0, last, holder, others>>

\* the UPDATE to 'leased', commit, return self._row_to_dict(row)
LeaseUpdate(w) ==
    /\ Frame(w).pc = "lease_upd"
    /\ queue' = UpdateLeased(queue, Frame(w).row.plan_id, now)
    /\ lock' = 0
    /\ Put(w, [Frame(w) EXCEPT !.pc = "lease_ret", !.leased = LeasedDict(Frame(w).row),
                               !.row = NoRow])
    /\ holder' = [holder EXCEPT ![Frame(w).row.plan_id] = w]
    /\ UNCHANGED <<now, got, queue0, last, others>>

\* ------------------------------------------------------------ enqueue_plan
Enqueue(id, body, priority) ==
    /\ LockFree
    /\ queue' = Upsert(queue, DossierPlan(id, body), priority, now)
    /\ holder' = Release(holder, id)
    /\ UNCHANGED <<lock, now, wk, got, queue0, last, others>>

\* ------------------------------ mark_complete, mark_failed, reset called directly
\* mark_complete(plan_id, warnings=ws)
MarkComplete(id, ws) ==
    /\ LockFree
    /\ queue' = UpdateStatus(queue, id, "completed", NULL, ws, now)
    /\ last' = Call("mark_complete", id)
    /\ UNCHANGED <<lock, now, wk, got, queue0, holder, others>>

\* mark_failed(plan_id, error=e)
MarkFailed(id, e) ==
    /\ LockFree
    /\ queue' = UpdateStatus(queue, id, "failed", e, NoWarnings, now)
    /\ last' = Call("mark_failed", id)
    /\ UNCHANGED <<lock, now, wk, got, queue0, holder, others>>

\* (mutant) reset sets the status and leaves error and warnings as they are
Reset_StatusOnly(id) ==
    /\ LockFree
    /\ queue' = {IF r.plan_id = id THEN [r EXCEPT !.status = "pending", !.updated_at = now]
                 ELSE r : r \in queue}
    /\ last' = Call("reset", id)
    /\ holder' = Release(holder, id)
    /\ UNCHANGED <<lock, now, wk, got, queue0, others>>

\* (mutant) reset stamps the entry as enqueue_plan does: queued_at becomes the present time
Reset_Requeue(id) ==
    /\ LockFree
    /\ queue' = {IF r.plan_id = id THEN [r EXCEPT !.queued_at = now] ELSE r
                   : r \in UpdateStatus(queue, id, "pending", NULL, NoWarnings, now)}
    /\ last' = Call("reset", id)
    /\ holder' = Release(holder, id)
    /\ UNCHANGED <<lock, now, wk, got, queue0, others>>

\* reset(plan_id)
Reset(id) ==
    /\ LockFree
    /\ queue' = UpdateStatus(queue, id, "pending", NULL, NoWarnings, now)
    /\ last' = Call("reset", id)
    /\ holder' = Release(holder, id)
    /\ UNCHANGED <<lock, now, wk, got, queue0, others>>

\* the wall clock advances
Tick ==
    /\ now < MaxClock
    /\ now' = now + 1
    /\ UNCHANGED <<queue, lock, wk, got, queue0, last, holder, others>>

\* ------------------------------------------------------------ process_batch
Reporters == {"none"}

\* reporter.update(...) can raise only when the reporter given is a failing one
CanRaise(w, raises) == raises => Frame(w).reporter = "failing"

\* one entry of plan_summaries (a key a status leaves out holds its default)
Outcome(id, status, warnings, error) ==
    [plan_id |-> id, status |-> status, warnings |-> warnings, error |-> error]

\* process_batch(batch_size=bs, dry_run=dr, reporter=rep) is called
StartBatch(w, bs, dr, rep) ==
    /\ Frame(w).pc = "idle"
    /\ Put(w, [IdleFrame EXCEPT !.pc = "loop", !.caller = "batch", !.batch_size = bs,
                                !.dry_run = dr, !.reporter = rep])
    /\ UNCHANGED <<queue, lock, now, got, queue0, last, holder, others>>

\* (mutant) the loop runs while the count is at most batch_size: one turn more
BatchLoop_OneMore(w) ==
    /\ Frame(w).pc = "loop"
    /\ Put(w, [Frame(w) EXCEPT
                 !.pc = IF Frame(w).iter <= Frame(w).batch_size THEN "lease" ELSE "finish"])
    /\ UNCHANGED <<queue, lock, now, got, queue0, last, holder, others>>

\* for _ in range(batch_size): leased = self._queue_store.lease_next()
BatchLoop(w) ==
    /\ Frame(w).pc = "loop"
    /\ Put(w, [Frame(w) EXCEPT
                 !.pc = IF Frame(w).iter < Frame(w).batch_size THEN "lease" ELSE "finish"])
    /\ UNCHANGED <<queue, lock, now, got, queue0, last, holder, others>>

\* lease_next has returned: break on None, else count the plan, rebuild it from the
\* payload and report "leased"
BatchLeased(w, raises) ==
    /\ Frame(w).pc = "lease_ret"
    /\ Frame(w).caller = "batch"
    /\ CanRaise(w, raises)
    /\ IF Frame(w).leased = None
       THEN /\ ~raises
            /\ Put(w, [Frame(w) EXCEPT !.pc = "finish"])
       ELSE LET plan == FromDict(Frame(w).leased.payload)
                f == [Frame(w) EXCEPT !.processed = @ + 1, !.plan = plan, !.leased = None]
            IN  Put(w, IF raises
                       THEN [f EXCEPT !.pc = "raised", !.raised = ReporterError]
                       ELSE [f EXCEPT !.pc = IF f.dry_run THEN "reset" ELSE "generate"])
    /\ UNCHANGED <<queue, lock, now, got, queue0, last, holder, others>>

\* (mutant) the dry run records the plan and goes on without reset(plan_id)
BatchReset_NoReset(w, raises) ==
    /\ Frame(w).pc = "reset"
    /\ CanRaise(w, raises)
    /\ LET f == [Frame(w) EXCEPT
                   !.plans = Append(@, Outcome(Frame(w).plan.plan_id, "dry-run", << >>, NULL))]
       IN  Put(w, IF raises
                  THEN [f EXCEPT !.pc = "raised", !.raised = ReporterError]
                  ELSE [f EXCEPT !.pc = "loop", !.iter = @ + 1, !.plan = NoPlan])
    /\ UNCHANGED <<queue, lock, now, got, queue0, last, holder, others>>

\* if dry_run: reset(plan_id), record "dry-run", report, continue
BatchReset(w, raises) ==
    /\ Frame(w).pc = "reset"
    /\ CanRaise(w, raises)
    /\ LockFree
    /\ queue' = UpdateStatus(queue, Frame(w).plan.plan_id, "pending", NULL, NoWarnings, now)
    /\ LET f == [Frame(w) EXCEPT
                   !.plans = Append(@, Outcome(Frame(w).plan.plan_id, "dry-run", << >>, NULL))]
       IN  Put(w, IF raises
                  THEN [f EXCEPT !.pc = "raised", !.raised = ReporterError]
                  ELSE [f EXCEPT !.pc = "loop", !.iter = @ + 1, !.plan = NoPlan])
    /\ holder' = Release(holder, Frame(w).plan.plan_id)
    /\ UNCHANGED <<lock, now, got, queue0, last, others>>

\* result = self._generator.generate_from_plan(plan) returns with warnings ws
GenerateOk(w, ws) ==
    /\ Frame(w).pc = "generate"
    /\ Put(w, [Frame(w) EXCEPT !.pc = "mark_complete", !.result = ws])
    /\ UNCHANGED <<queue, lock, now, got, queue0, last, holder, others>>

\* generate_from_plan raises an exception with message e
GenerateRaise(w, e) ==
    /\ Frame(w).pc = "generate"
    /\ Put(w, [Frame(w) EXCEPT !.pc = "mark_failed", !.exc = e])
    /\ UNCHANGED <<queue, lock, now, got, queue0, last, holder, others>>

\* (mutant) mark_complete(plan_id) is called without the warnings
BatchComplete_NoWarnings(w, raises) ==
    /\ Frame(w).pc = "mark_complete"
    /\ CanRaise(w, raises)
    /\ LockFree
    /\ queue' = UpdateStatus(queue, Frame(w).plan.plan_id, "completed", NULL,
                             NoWarnings, now)
    /\ LET f == [Frame(w) EXCEPT
                   !.plans = Append(@, Outcome(Frame(w).plan.plan_id, "completed",
                                               Frame(w).result, NULL)),
                   !.completed = @ + 1]
       IN  Put(w, IF raises
                  THEN [f EXCEPT !.pc = "mark_failed", !.exc = ReporterError]
                  ELSE [f EXCEPT !.pc = "loop", !.iter = @ + 1, !.plan = NoPlan,
                                 !.result = << >>])
    /\ holder' = ReleaseBy(holder, w, Frame(w).plan.plan_id)
    /\ UNCHANGED <<lock, now, got, queue0, last, others>>

\* mark_complete(plan_id, warnings=result.warnings), record the result, count it,
\* report "completed"; a raise here is inside the try block
BatchComplete(w, raises) ==
    /\ Frame(w).pc = "mark_complete"
    /\ CanRaise(w, raises)
    /\ LockFree
    /\ queue' = UpdateStatus(queue, Frame(w).plan.plan_id, "completed", NULL,
                             Frame(w).result, now)
    /\ LET f == [Frame(w) EXCEPT
                   !.plans = Append(@, Outcome(Frame(w).plan.plan_id, "completed",
                                               Frame(w).result, NULL)),
                   !.completed = @ + 1]
       IN  Put(w, IF raises
                  THEN [f EXCEPT !.pc = "mark_failed", !.exc = ReporterError]
                  ELSE [f EXCEPT !.pc = "loop", !.iter = @ + 1, !.plan = NoPlan,
                                 !.result = << >>])
    /\ holder' = ReleaseBy(holder, w, Frame(w).plan.plan_id)
    /\ UNCHANGED <<lock, now, got, queue0, last, others>>

\* (mutant) the handler marks the plan failed and leaves the loop
BatchFailed_Abort(w, raises) ==
    /\ Frame(w).pc = "mark_failed"
    /\ CanRaise(w, raises)
    /\ LockFree
    /\ queue' = UpdateStatus(queue, Frame(w).plan.plan_id, "failed", Frame(w).exc,
                             NoWarnings, now)
    /\ LET f == [Frame(w) EXCEPT
                   !.plans = Append(@, Outcome(Frame(w).plan.plan_id, "failed", << >>,
                                               Frame(w).exc)),
                   !.failed = @ + 1]
       IN  Put(w, IF raises
                  THEN [f EXCEPT !.pc = "raised", !.raised = ReporterError]
                  ELSE [f EXCEPT !.pc = "finish", !.plan = NoPlan,
                                 !.result = << >>, !.exc = NULL])
    /\ holder' = ReleaseBy(holder, w, Frame(w).plan.plan_id)
    /\ UNCHANGED <<lock, now, got, queue0, last, others>>

\* except Exception as exc: mark_failed(plan_id, error=str(exc)), record, count,
\* report "failed"; a raise here leaves process_batch
BatchFailed(w, raises) ==
    /\ Frame(w).pc = "mark_failed"
    /\ CanRaise(w, raises)
    /\ LockFree
    /\ queue' = UpdateStatus(queue, Frame(w).plan.plan_id, "failed", Frame(w).exc,
                             NoWarnings, now)
    /\ LET f == [Frame(w) EXCEPT
                   !.plans = Append(@, Outcome(Frame(w).plan.plan_id, "failed", << >>,
                                               Frame(w).exc)),
                   !.failed = @ + 1]
       IN  Put(w, IF raises
                  THEN [f EXCEPT !.pc = "raised", !.raised = ReporterError]
                  ELSE [f EXCEPT !.pc = "loop", !.iter = @ + 1, !.plan = NoPlan,
                                 !.result = << >>, !.exc = NULL])
    /\ holder' = ReleaseBy(holder, w, Frame(w).plan.plan_id)
    /\ UNCHANGED <<lock, now, got, queue0, last, others>>

\* summary = QueueProcessSummary(...); report "finished"/"partial"; return summary
BatchFinish(w, raises) ==
    /\ Frame(w).pc = "finish"
    /\ CanRaise(w, raises)
    /\ Put(w, IF raises
              THEN [Frame(w) EXCEPT !.pc = "raised", !.raised = ReporterError]
              ELSE [Frame(w) EXCEPT !.pc = "returned"])
    /\ UNCHANGED <<queue, lock, now, got, queue0, last, holder, others>>

\* a store call of process_batch cannot complete (sqlite3.OperationalError):
\* lease_next, reset and the handler's mark_failed are outside the try block,
\* mark_complete is inside it
StoreFault(w) ==
    /\ Frame(w).caller = "batch"
    /\ Frame(w).pc \in {"lease", "reset", "mark_complete", "mark_failed"}
    /\ Put(w, IF Frame(w).pc = "mark_complete"
              THEN [Frame(w) EXCEPT !.pc = "mark_failed", !.exc = StoreError]
              ELSE [Frame(w) EXCEPT !.pc = "raised", !.raised = StoreError])
    /\ UNCHANGED <<queue, lock, now, got, queue0, last, holder, others>>

\* ---------------------------------------------------------- specifications
Init ==
    /\ queue = {}
    /\ lock = 0
    /\ now = 0
    /\ wk = [w \in Workers |-> IdleFrame]
    /\ got = [w \in Workers |-> << >>]
    /\ queue0 = {}
    /\ last = NoCall
    /\ holder = [id \in PlanIds |-> 0]
    /\ OthersUnused

Producer ==
    \/ \E id \in PlanIds, body \in Bodies, priority \in Priorities :
           Enqueue(id, body, priority)
    \/ Tick

Batch(w) ==
    \/ BatchLoop(w)
    \/ LeaseBegin(w)
    \/ LeaseSelect(w)
    \/ LeaseUpdate(w)
    \/ BatchLeased(w, FALSE)
    \/ BatchReset(w, FALSE)
    \/ \E ws \in WarningLists : GenerateOk(w, ws)
    \/ \E e \in GenErrors : GenerateRaise(w, e)
    \/ BatchComplete(w, FALSE)
    \/ BatchFailed(w, FALSE)
    \/ BatchFinish(w, FALSE)

Next ==
    \/ Producer
    \/ \E w \in Workers, bs \in 0..MaxBatch, dr \in BOOLEAN, rep \in Reporters :
           StartBatch(w, bs, dr, rep)
    \/ \E w \in Workers : Batch(w)

Spec == Init /\ [][Next]_vars

\* ------------------------------------------- lease_next called directly
\* the frame of a caller outside process_batch that calls lease_next()
DirectFrame == [IdleFrame EXCEPT !.pc = "lease", !.caller = "direct"]

\* its lease_next returns (plan id 0: None); it calls again, up to MaxCalls times
DirectReturn(w) ==
    /\ Frame(w).pc = "lease_ret"
    /\ Frame(w).caller = "direct"
    /\ got' = [got EXCEPT ![w] = Append(@, Frame(w).leased.plan_id)]
    /\ Put(w, IF Len(got[w]) + 1 < MaxCalls THEN DirectFrame ELSE IdleFrame)
    /\ UNCHANGED <<queue, lock, now, queue0, last, holder, others>>

\* the caller calls mark_complete for an entry it holds
DirectComplete(w, id, ws) ==
    /\ Frame(w).pc \in {"idle", "lease"}
    /\ \E i \in DOMAIN got[w] : got[w][i] = id
    /\ GetPlan(queue, id).status = "leased"
    /\ LockFree
    /\ queue' = UpdateStatus(queue, id, "completed", NULL, ws, now)
    /\ holder' = ReleaseBy(holder, w, id)
    /\ UNCHANGED <<lock, now, wk, got, queue0, last, others>>

\* the caller calls mark_failed for an entry it holds
DirectFailed(w, id, e) ==
    /\ Frame(w).pc \in {"idle", "lease"}
    /\ \E i \in DOMAIN got[w] : got[w][i] = id
    /\ GetPlan(queue, id).status = "leased"
    /\ LockFree
    /\ queue' = UpdateStatus(queue, id, "failed", e, NoWarnings, now)
    /\ holder' = ReleaseBy(holder, w, id)
    /\ UNCHANGED <<lock, now, wk, got, queue0, last, others>>

\* tables that enqueue_plan calls on an empty store leave
PendingTables ==
    {{InsertedRow(DossierPlan(id, CHOOSE b \in Bodies : TRUE), "normal", t[id]) : id \in S}
       : S \in SUBSET PlanIds, t \in [PlanIds -> Times]}

LeaseInit ==
    /\ queue \in PendingTables
    /\ lock = 0
    /\ now = MaxClock
    /\ wk = [w \in Workers |-> DirectFrame]
    /\ got = [w \in Workers |-> << >>]
    /\ queue0 = {}
    /\ last = NoCall
    /\ holder = [id \in PlanIds |-> 0]
    /\ OthersUnused

LeaseNext ==
    \E w \in Workers :
        \/ LeaseBegin(w)
        \/ LeaseSelect(w)
        \/ LeaseUpdate(w)
        \/ DirectReturn(w)
        \/ \E id \in PlanIds, ws \in WarningLists : DirectComplete(w, id, ws)
        \/ \E id \in PlanIds, e \in GenErrors : DirectFailed(w, id, e)

LeaseSpec == LeaseInit /\ [][LeaseNext]_vars

\* ------------------------------------------------- one batch running alone
\* the worker whose batch runs alone
Solo == CHOOSE w \in Workers : TRUE

\* rows a table can hold for plan id, as enqueue_plan, lease_next, mark_complete
\* and mark_failed leave them (of the plan contents and update times, one each)
StoredRows(id) ==
    {[InsertedRow(DossierPlan(id, CHOOSE b \in Bodies : TRUE), "normal", q) EXCEPT
         !.status = x.status, !.error = x.error, !.warnings = x.warnings]
       : q \in Times,
         x \in {[status |-> "pending", error |-> NULL, warnings |-> NULL],
                [status |-> "leased", error |-> NULL, warnings |-> NULL]}
               \cup {[status |-> "completed", error |-> NULL, warnings |-> JsonDumps(ws)]
                       : ws \in WarningLists}
               \cup {[status |-> "failed", error |-> e, warnings |-> NULL] : e \in GenErrors}}

RECURSIVE TablesOver(_)
\* the tables with at most one row for each of the plan ids 1..n
TablesOver(n) ==
    IF n = 0 THEN {{}}
    ELSE LET rest == TablesOver(n - 1)
         IN  rest \cup {t \cup {r} : t \in rest, r \in StoredRows(n)}

SoloInit ==
    /\ queue \in TablesOver(NumPlans)
    /\ queue0 = queue
    /\ lock = 0
    /\ now = MaxClock
    /\ wk = [w \in Workers |-> IdleFrame]
    /\ got = [w \in Workers |-> << >>]
    /\ last = NoCall
    /\ holder = [id \in PlanIds |-> 0]
    /\ OthersUnused

SoloNext ==
    \/ \E bs \in 0..MaxSoloBatch, dr \in BOOLEAN, rep \in Reporters :
           StartBatch(Solo, bs, dr, rep)
    \/ Batch(Solo)

SoloSpec == SoloInit /\ [][SoloNext]_vars

\* --- one batch alone that keeps running, batch_size negative, zero or positive
TermNext ==
    \/ \E bs \in -1..MaxSoloBatch, dr \in BOOLEAN, rep \in Reporters :
           StartBatch(Solo, bs, dr, rep)
    \/ Batch(Solo)

\* the call is not suspended for ever: each store call and each generator call ends
TermSpec == SoloInit /\ [][TermNext]_vars /\ WF_vars(Batch(Solo))

\* ------------------------------------- enqueue_plan calls on any table
EnqueueNext ==
    \E id \in PlanIds, body \in Bodies, priority \in Priorities : Enqueue(id, body, priority)

EnqueueSpec == SoloInit /\ [][EnqueueNext]_vars

\* ----------- every store method called directly, on a store just created
StoreInit ==
    /\ queue = {}
    /\ queue0 = {}
    /\ lock = 0
    /\ now = MaxClock
    /\ wk = [w \in Workers |-> IF w = Solo THEN DirectFrame ELSE IdleFrame]
    /\ got = [w \in Workers |-> << >>]
    /\ last = NoCall
    /\ holder = [id \in PlanIds |-> 0]
    /\ OthersUnused

StoreNext ==
    \/ \E id \in PlanIds : Enqueue(id, CHOOSE b \in Bodies : TRUE, "normal")
    \/ \E id \in PlanIds, ws \in WarningLists \cup {NoWarnings} : MarkComplete(id, ws)
    \/ \E id \in PlanIds, e \in GenErrors : MarkFailed(id, e)
    \/ \E id \in PlanIds : Reset(id)
    \/ LeaseBegin(Solo)
    \/ LeaseSelect(Solo)
    \/ LeaseUpdate(Solo)
    \/ DirectReturn(Solo)

StoreSpec == StoreInit /\ [][StoreNext]_vars

\* ---------------- reset and lease_next called directly, on a table in any state
ResetInit ==
    /\ queue \in TablesOver(NumPlans)
    /\ queue0 = queue
    /\ lock = 0
    /\ now = MaxClock
    /\ wk = [w \in Workers |-> IF w = Solo THEN DirectFrame ELSE IdleFrame]
    /\ got = [w \in Workers |-> << >>]
    /\ last = NoCall
    /\ holder = [id \in PlanIds |-> 0]
    /\ OthersUnused

ResetNext ==
    \/ \E id \in PlanIds : Reset(id)
    \/ LeaseBegin(Solo)
    \/ LeaseSelect(Solo)
    \/ LeaseUpdate(Solo)
    \/ DirectReturn(Solo)

ResetSpec == ResetInit /\ [][ResetNext]_vars

\* ------------------------------- workers can be killed, entries reset by hand
\* the worker process is killed while it holds an entry: after its lease_next
\* returned and before its reset, mark_complete or mark_failed
Kill(w) ==
    /\ Frame(w).caller = "batch"
    /\ \/ Frame(w).pc = "lease_ret" /\ Frame(w).leased # None
       \/ Frame(w).pc \in {"reset", "generate", "mark_complete", "mark_failed"}
    /\ Put(w, [Frame(w) EXCEPT !.pc = "killed"])
    /\ UNCHANGED <<queue, lock, now, got, queue0, last, holder, others>>

KillNext ==
    \/ \E id \in PlanIds, body \in Bodies, priority \in Priorities :
           Enqueue(id, body, priority)
    \/ \E w \in Workers, bs \in 0..MaxBatch, dr \in BOOLEAN, rep \in Reporters :
           StartBatch(w, bs, dr, rep)
    \/ \E w \in Workers : Batch(w)
    \/ \E w \in Workers : Kill(w)
    \/ \E id \in PlanIds : Reset(id)

KillSpec == Init /\ [][KillNext]_vars

\* ------------- process_batch workers alone: no producer, no direct store call
WorkersNext ==
    \/ \E w \in Workers, bs \in 0..MaxBatch, dr \in BOOLEAN, rep \in Reporters :
           StartBatch(w, bs, dr, rep)
    \/ \E w \in Workers : Batch(w)

\* the queue holds pending entries, no process_batch has been called yet
WorkersInit ==
    /\ queue \in PendingTables
    /\ queue0 = queue
    /\ lock = 0
    /\ now = MaxClock
    /\ wk = [w \in Workers |-> IdleFrame]
    /\ got = [w \in Workers |-> << >>]
    /\ last = NoCall
    /\ holder = [id \in PlanIds |-> 0]
    /\ OthersUnused

WorkersSpec == WorkersInit /\ [][WorkersNext]_vars

\* ------ workers run one non-dry-run batch after another while producers enqueue
\* the steps of a process_batch(dry_run=False) call: the dry-run branch is never taken
RealBatch(w) ==
    \/ BatchLoop(w)
    \/ LeaseBegin(w)
    \/ LeaseSelect(w)
    \/ LeaseUpdate(w)
    \/ BatchLeased(w, FALSE)
    \/ GenerateOk(w, << >>)
    \/ \E e \in GenErrors : GenerateRaise(w, e)
    \/ BatchComplete(w, FALSE)
    \/ BatchFailed(w, FALSE)
    \/ BatchFinish(w, FALSE)

\* the job returns the summary and exits; the next job execution starts afresh
NextJob(w) ==
    /\ Frame(w).pc = "returned"
    /\ Put(w, IdleFrame)
    /\ UNCHANGED <<queue, lock, now, got, queue0, last, holder, others>>

\* everything one worker does: start a job, run its batch, exit
WorkerStep(w) ==
    \/ \E bs \in 1..MaxBatch : StartBatch(w, bs, FALSE, "none")
    \/ RealBatch(w)
    \/ NextJob(w)

LiveNext ==
    \/ \E id \in PlanIds : Enqueue(id, 1, "normal")
    \/ \E w \in Workers : WorkerStep(w)

\* every worker keeps taking its steps; producers enqueue whenever they like
LiveSpec == WorkersInit /\ [][LiveNext]_vars /\ \A w \in Workers : WF_vars(WorkerStep(w))

\* ------------------------- one batch alone, store and reporter may fail
FaultNext ==
    \/ \E bs \in 0..MaxSoloBatch, dr \in BOOLEAN, rep \in {"none", "failing"} :
           StartBatch(Solo, bs, dr, rep)
    \/ Batch(Solo)
    \/ BatchLeased(Solo, TRUE)
    \/ BatchReset(Solo, TRUE)
    \/ BatchComplete(Solo, TRUE)
    \/ BatchFailed(Solo, TRUE)
    \/ BatchFinish(Solo, TRUE)
    \/ StoreFault(Solo)

FaultSpec == SoloInit /\ [][FaultNext]_vars

\* ------------------------------------------------------------ BundleBuilder
\* str values are sequences of characters; "global", "cross-border", "unknown",
\* "dossier" and the digits of a number stand for their characters in one piece
LowerChar(c) == IF c = "A" THEN "a" ELSE c

\* str.lower()
StrLower(str) == [i \in DOMAIN str |-> LowerChar(str[i])]

\* str.replace(" ", "-")
StrReplaceSpace(str) == [i \in DOMAIN str |-> IF str[i] = " " THEN "-" ELSE str[i]]

\* the jurisdictions of candidates: "A", "a", "" (empty)
Jurisdictions == {<<"A">>, <<"a">>, << >>}

\* Decimal amounts, in units of criteria.min_loss_usd's quantum
MinLossUsd == 2

\* loss_amount_usd and accepted_at (a day) of candidates: a loss below the
\* minimum, a loss equal to it accepted on the first day, and a loss above it
\* accepted on the last day
LossAndDay ==
    {[loss |-> MinLossUsd - 1, day |-> MaxClock],
     [loss |-> MinLossUsd, day |-> 0],
     [loss |-> MinLossUsd + 1, day |-> MaxClock]}

\* a Python list / tuple of str
PyList(items) == [type |-> "list", items |-> items]

PyTuple(items) == [type |-> "tuple", items |-> items]

\* DossierCandidate(case_id, loss_amount_usd, accepted_at, jurisdiction, cross_border),
\* primary_entities left to its default_factory, list
DossierCandidate(case_id, loss, accepted_at, jurisdiction, cross_border) ==
    [case_id |-> case_id, loss_amount_usd |-> loss, accepted_at |-> accepted_at,
     jurisdiction |-> jurisdiction, cross_border |-> cross_border,
     primary_entities |-> PyList(<< >>)]

\* the candidates a caller may pass as the n-th of its list (case_id: n)
CandidatesAt(n) ==
    {DossierCandidate(n, x.loss, x.day, j, cb)
       : x \in LossAndDay, j \in Jurisdictions, cb \in BOOLEAN}

RECURSIVE CandidateLists(_)
\* the candidate lists of length n
CandidateLists(n) ==
    IF n = 0 THEN {<< >>}
    ELSE {Append(cs, c) : cs \in CandidateLists(n - 1), c \in CandidatesAt(n)}

JurisdictionModes == {"single", "multi", "global"}

\* BundleCriteria(min_loss_usd, recency_days, max_cases_per_dossier,
\* jurisdiction_mode, require_cross_border)
BundleCriteria ==
    [min_loss_usd : {MinLossUsd}, recency_days : {0},
     max_cases_per_dossier : 0..MaxCases, jurisdiction_mode : JurisdictionModes,
     require_cross_border : BOOLEAN]

\* reference_time: Optional[datetime]
ReferenceTimes == {[given |-> FALSE, at |-> 0], [given |-> TRUE, at |-> MaxClock]}

\* candidate.is_recent(recency_days, reference_time)
IsRecent(candidate, recency_days, reference_time) ==
    LET cutoff == reference_time - recency_days
    IN  candidate.accepted_at >= cutoff

\* (mutant) _filter_candidates without the recency test
FilterCandidates_AnyAge(candidates, criteria, reference_time) ==
    LET Keep(candidate) ==
            /\ ~(candidate.loss_amount_usd < criteria.min_loss_usd)
            /\ ~(criteria.require_cross_border /\ ~candidate.cross_border)
    IN  SelectSeq(candidates, Keep)

\* _filter_candidates(candidates, criteria, reference_time)
FilterCandidates(candidates, criteria, reference_time) ==
    LET Keep(candidate) ==
            /\ ~(candidate.loss_amount_usd < criteria.min_loss_usd)
            /\ IsRecent(candidate, criteria.recency_days, reference_time)
            /\ ~(criteria.require_cross_border /\ ~candidate.cross_border)
    IN  SelectSeq(candidates, Keep)

\* (mutant) a cross-border candidate goes to "cross-border" in every mode
BucketKey_AnyMode(candidate, criteria) ==
    IF candidate.cross_border
    THEN <<"cross-border">>
    ELSE IF candidate.jurisdiction = << >> THEN <<"unknown">> ELSE candidate.jurisdiction

\* the key _group_candidates files a candidate under
BucketKey(candidate, criteria) ==
    IF criteria.jurisdiction_mode = "multi" /\ candidate.cross_border
    THEN <<"cross-border">>
    ELSE IF candidate.jurisdiction = << >> THEN <<"unknown">> ELSE candidate.jurisdiction

RECURSIVE SetDefaultAppend(_, _, _)
\* buckets.setdefault(key, []).append(candidate), buckets a dict in insertion order
SetDefaultAppend(buckets, key, candidate) ==
    IF buckets = << >> THEN <<[key |-> key, members |-> <<candidate>>]>>
    ELSE IF Head(buckets).key = key
         THEN <<[Head(buckets) EXCEPT !.members = Append(@, candidate)]>> \o Tail(buckets)
         ELSE <<Head(buckets)>> \o SetDefaultAppend(Tail(buckets), key, candidate)

RECURSIVE GroupLoop(_, _, _)
\* the for loop of _group_candidates over candidates, from buckets
GroupLoop(buckets, candidates, criteria) ==
    IF candidates = << >> THEN buckets
    ELSE GroupLoop(SetDefaultAppend(buckets, BucketKey(Head(candidates), criteria),
                                    Head(candidates)),
                   Tail(candidates), criteria)

\* _group_candidates(candidates, criteria)
GroupCandidates(candidates, criteria) ==
    IF criteria.jurisdiction_mode = "global"
    THEN <<[key |-> <<"global">>, members |-> candidates]>>
    ELSE GroupLoop(<< >>, candidates, criteria)

RECURSIVE ChunkFrom(_, _, _)
\* [candidates[i : i + chunk_size] for i in range(start - 1, len(candidates), chunk_size)]
ChunkFrom(candidates, chunk_size, start) ==
    IF start > Len(candidates) THEN << >>
    ELSE <<SubSeq(candidates, start, Min(start + chunk_size - 1, Len(candidates)))>>
           \o ChunkFrom(candidates, chunk_size, start + chunk_size)

\* (mutant) _chunk returns the whole list as one slice, whatever chunk_size
Chunk_Whole(candidates, chunk_size) ==
    IF chunk_size <= 0 \/ candidates # << >> THEN <<candidates>> ELSE << >>

\* (mutant) _chunk returns the first slice only
Chunk_FirstOnly(candidates, chunk_size) ==
    IF chunk_size <= 0 THEN <<candidates>>
    ELSE IF candidates = << >> THEN << >>
    ELSE <<SubSeq(candidates, 1, Min(chunk_size, Len(candidates)))>>

\* _chunk(candidates, chunk_size)
Chunk(candidates, chunk_size) ==
    IF chunk_size <= 0 THEN <<candidates>> ELSE ChunkFrom(candidates, chunk_size, 1)

RECURSIVE SumLoss(_)
\* sum((case.loss_amount_usd for case in candidates), Decimal("0"))
SumLoss(candidates) ==
    IF candidates = << >> THEN 0
    ELSE SumLoss(SubSeq(candidates, 1, Len(candidates) - 1))
           + candidates[Len(candidates)].loss_amount_usd

\* f"{chunk_index:02d}"
TwoDigits(n) == IF n < 10 THEN <<"0", ToString(n)>> ELSE <<ToString(n)>>

\* _build_plan_id(bucket_key, reference_time, chunk_index)
BuildPlanId(bucket_key, reference_time, chunk_index) ==
    LET lowered == StrReplaceSpace(StrLower(bucket_key))
        safe_key == IF lowered = << >> THEN <<"unknown">> ELSE lowered
        timestamp == <<ToString(reference_time)>>
    IN  <<"dossier", "-">> \o safe_key \o <<"-">> \o timestamp \o <<"-">>
          \o TwoDigits(chunk_index)

\* _derive_bundle_reason(bucket_key, candidates)
DeriveBundleReason(bucket_key, candidates) ==
    IF bucket_key = <<"global">> THEN <<"Global dossier">>
    ELSE IF bucket_key = <<"cross-border">> THEN <<"Cross-border dossier">>
    ELSE IF Len(candidates) = 1
         THEN <<"Single jurisdiction (">> \o bucket_key \o <<") dossier">>
         ELSE bucket_key \o <<" dossier (", ToString(Len(candidates)), " cases, shared entities)">>

\* _build_plan(candidates, bucket_key, chunk_index, reference_time)
BuildPlan(candidates, bucket_key, chunk_index, reference_time) ==
    [plan_id |-> BuildPlanId(bucket_key, reference_time, chunk_index),
     jurisdiction_key |-> bucket_key,
     created_at |-> reference_time,
     total_loss_usd |-> SumLoss(candidates),
     cases |-> candidates,
     bundle_reason |-> DeriveBundleReason(bucket_key, candidates),
     cross_border |-> \E i \in DOMAIN candidates : candidates[i].cross_border]

RECURSIVE PlansOfBuckets_BucketTotal(_, _, _)
\* (mutant) the total of a plan is taken over its whole bucket, not over its chunk
PlansOfBuckets_BucketTotal(buckets, criteria, reference_time) ==
    IF buckets = << >> THEN << >>
    ELSE LET chunks == Chunk(Head(buckets).members, criteria.max_cases_per_dossier)
         IN  [index \in DOMAIN chunks |->
                  [BuildPlan(chunks[index], Head(buckets).key, index, reference_time)
                     EXCEPT !.total_loss_usd = SumLoss(Head(buckets).members)]]
               \o PlansOfBuckets_BucketTotal(Tail(buckets), criteria, reference_time)

RECURSIVE PlansOfBuckets(_, _, _)
\* the loops of generate_plans over buckets.items() and the chunks of a bucket
PlansOfBuckets(buckets, criteria, reference_time) ==
    IF buckets = << >> THEN << >>
    ELSE LET chunks == Chunk(Head(buckets).members, criteria.max_cases_per_dossier)
         IN  [index \in DOMAIN chunks |->
                  BuildPlan(chunks[index], Head(buckets).key, index, reference_time)]
               \o PlansOfBuckets(Tail(buckets), criteria, reference_time)

\* (mutant) generate_plans takes the time from the clock although one is given
GeneratePlans_ClockTime(candidates, criteria, reference_time, clock) ==
    LET filtered == FilterCandidates(candidates, criteria, clock)
        buckets == GroupCandidates(filtered, criteria)
    IN  PlansOfBuckets(buckets, criteria, clock)

\* generate_plans(candidates, criteria, reference_time=...), datetime.now() being clock
GeneratePlans(candidates, criteria, reference_time, clock) ==
    LET time == IF reference_time.given THEN reference_time.at ELSE clock
        filtered == FilterCandidates(candidates, criteria, time)
        buckets == GroupCandidates(filtered, criteria)
    IN  PlansOfBuckets(buckets, criteria, time)

\* generate_plans calls on the same arguments: the arguments, the plans of the
\* last return, the number of returns, and the clock at the first call
BuilderCalls ==
    {[candidates |-> cs, criteria |-> cr, reference_time |-> rt, plans |-> << >>,
      calls |-> 0, called_at |-> 0]
       : cs \in UNION {CandidateLists(n) : n \in 0..MaxCandidates},
         cr \in BundleCriteria, rt \in ReferenceTimes}

\* builder.generate_plans(candidates, criteria, reference_time=...) runs, again or
\* for the first time, on the same arguments
CallGeneratePlans ==
    /\ bb.calls < 2
    /\ bb' = [bb EXCEPT !.plans = GeneratePlans(bb.candidates, bb.criteria,
                                                bb.reference_time, now),
                        !.calls = @ + 1,
                        !.called_at = IF bb.calls = 0 THEN now ELSE @]
    /\ UNCHANGED <<queueVars, sg, bm>>

\* the wall clock advances between the two calls of the builder
BuilderTick ==
    /\ bb.calls = 1
    /\ now < MaxClock
    /\ now' = now + 1
    /\ UNCHANGED <<queue, lock, wk, got, queue0, last, holder, others>>

BuilderInit ==
    /\ queue = {}
    /\ queue0 = {}
    /\ lock = 0
    /\ now = 0
    /\ wk = [w \in Workers |-> IdleFrame]
    /\ got = [w \in Workers |-> << >>]
    /\ last = NoCall
    /\ holder = [id \in PlanIds |-> 0]
    /\ bb \in BuilderCalls
    /\ sg = Unused
    /\ bm = Unused

BuilderNext ==
    \/ CallGeneratePlans
    \/ BuilderTick

BuilderSpec == BuilderInit /\ [][BuilderNext]_vars

\* --------------------------------------- DossierPlan.to_dict / from_dict
\* str(Decimal) and Decimal(str), of the amounts plans can hold
DecimalStr(amount) == ToString(amount)

ToDecimal(text) ==
    CHOOSE amount \in 0..(MaxCandidates * (MinLossUsd + 1)) : DecimalStr(amount) = text

\* datetime.isoformat() and datetime.fromisoformat(str)
IsoFormat(time) == <<"day", ToString(time)>>

FromIsoFormat(text) == CHOOSE time \in Times : IsoFormat(time) = text

\* the dict of one case in to_dict
CaseToDict(case) ==
    [case_id |-> case.case_id,
     loss_amount_usd |-> DecimalStr(case.loss_amount_usd),
     accepted_at |-> IsoFormat(case.accepted_at),
     jurisdiction |-> case.jurisdiction,
     cross_border |-> case.cross_border,
     primary_entities |-> PyList(case.primary_entities.items)]

\* DossierPlan.to_dict
PlanToDict(plan) ==
    [plan_id |-> plan.plan_id,
     jurisdiction_key |-> plan.jurisdiction_key,
     created_at |-> IsoFormat(plan.created_at),
     total_loss_usd |-> DecimalStr(plan.total_loss_usd),
     bundle_reason |-> plan.bundle_reason,
     cross_border |-> plan.cross_border,
     cases |-> [i \in DOMAIN plan.cases |-> CaseToDict(plan.cases[i])]]

\* the DossierCandidate from_dict builds from the dict of a case
CaseFromDict(item) ==
    [case_id |-> item.case_id,
     loss_amount_usd |-> ToDecimal(item.loss_amount_usd),
     accepted_at |-> FromIsoFormat(item.accepted_at),
     jurisdiction |-> item.jurisdiction,
     cross_border |-> item.cross_border,
     primary_entities |-> PyTuple(item.primary_entities.items)]

\* DossierPlan.from_dict
PlanFromDict(payload) ==
    [plan_id |-> payload.plan_id,
     jurisdiction_key |-> payload.jurisdiction_key,
     created_at |-> FromIsoFormat(payload.created_at),
     total_loss_usd |-> ToDecimal(payload.total_loss_usd),
     cases |-> [i \in DOMAIN payload.cases |-> CaseFromDict(payload.cases[i])],
     bundle_reason |-> payload.bundle_reason,
     cross_border |-> payload.cross_border]

\* what a caller may give as primary_entities: a list or a tuple, empty or not
EntityValues ==
    {PyList(<< >>), PyList(<<"wallet:abc">>), PyTuple(<< >>), PyTuple(<<"wallet:abc">>)}

RECURSIVE CaseLists(_)
\* the lists of n candidates of one jurisdiction, each with some primary_entities
CaseLists(n) ==
    IF n = 0 THEN {<< >>}
    ELSE {Append(cs, [DossierCandidate(n, x.loss, x.day, <<"A">>, cb)
                        EXCEPT !.primary_entities = pe])
            : cs \in CaseLists(n - 1), x \in LossAndDay, cb \in BOOLEAN, pe \in EntityValues}

\* the plans constructed over them
ConstructedPlans ==
    {BuildPlan(cases, <<"A">>, 1, t)
       : cases \in UNION {CaseLists(n) : n \in 0..MaxCandidates}, t \in Times}

\* payload = plan.to_dict()
Serialize ==
    /\ bb.stage = "plan"
    /\ bb' = [bb EXCEPT !.stage = "dict", !.payload = PlanToDict(bb.plan)]
    /\ UNCHANGED <<queueVars, sg, bm>>

\* DossierPlan.from_dict(payload)
Deserialize ==
    /\ bb.stage = "dict"
    /\ bb' = [bb EXCEPT !.stage = "restored", !.restored = PlanFromDict(bb.payload)]
    /\ UNCHANGED <<queueVars, sg, bm>>

RoundTripInit ==
    /\ queue = {}
    /\ queue0 = {}
    /\ lock = 0
    /\ now = 0
    /\ wk = [w \in Workers |-> IdleFrame]
    /\ got = [w \in Workers |-> << >>]
    /\ last = NoCall
    /\ holder = [id \in PlanIds |-> 0]
    /\ \E plan \in ConstructedPlans :
          bb = [plan |-> plan, stage |-> "plan", payload |-> Unused, restored |-> Unused]
    /\ sg = Unused
    /\ bm = Unused

RoundTripNext ==
    \/ Serialize
    \/ Deserialize

RoundTripSpec == RoundTripInit /\ [][RoundTripNext]_vars

\* ------------------------------------------- BundleBuilder.build_and_enqueue
\* the plan as the queue store takes it: its id and its serialization
QueuedPlan(plan) == DossierPlan(plan.plan_id, PlanToDict(plan))

RECURSIVE EnqueueAll(_, _, _)
\* for plan in plans: self._queue_store.enqueue_plan(plan), from table q at time t
EnqueueAll(q, plans, t) ==
    IF plans = << >> THEN q
    ELSE EnqueueAll(Upsert(q, QueuedPlan(Head(plans)), "normal", t), Tail(plans), t)

\* build_and_enqueue(candidates, criteria): generate_plans without a
\* reference_time, enqueue_plan for each plan, return the ids in that order
BuildAndEnqueue ==
    /\ bb.pc = "start"
    /\ LockFree
    /\ LET plans == GeneratePlans(bb.candidates, bb.criteria, [given |-> FALSE, at |-> 0], now)
       IN  /\ queue' = EnqueueAll(queue, plans, now)
           /\ bb' = [bb EXCEPT !.pc = "returned", !.plans = plans,
                               !.enqueued = [i \in DOMAIN plans |-> plans[i].plan_id]]
    /\ UNCHANGED <<lock, now, wk, got, queue0, last, holder, sg, bm>>

\* a builder on an empty queue, about to be called with a list and criteria
BuildAndEnqueueInit ==
    /\ queue = {}
    /\ queue0 = {}
    /\ lock = 0
    /\ now \in Times
    /\ wk = [w \in Workers |-> IdleFrame]
    /\ got = [w \in Workers |-> << >>]
    /\ last = NoCall
    /\ holder = [id \in PlanIds |-> 0]
    /\ \E cs \in UNION {CandidateLists(n) : n \in 0..MaxCandidates}, cr \in BundleCriteria :
          bb = [candidates |-> cs, criteria |-> cr, pc |-> "start",
                plans |-> << >>, enqueued |-> << >>]
    /\ sg = Unused
    /\ bm = Unused

BuildAndEnqueueSpec == BuildAndEnqueueInit /\ [][BuildAndEnqueue]_vars

\* ------------------------------------------------------ dossier_signatures
\* Artifact paths are 1..NumFiles, absolute; sg.files[p] is the content of the
\* file at p, 0 when there is no file.
ArtifactPaths == 1..NumFiles

NoPath == 0         \* path None of an entry

NoFile == 0

Contents == 1..NumContents

NoHash == << >>     \* hash None of a manifest row

HashAlgorithms == {"sha256"}    \* the names hashlib.new accepts, of those used here

\* names hashlib.new accepts whose hexdigest() takes a length: _hash_file's
\* digest.hexdigest() raises TypeError for them
XofAlgorithms == {"shake_128"}

\* _hash_file: the hexdigest, one per algorithm and content
HashFile_AnyContent(content, algorithm) == <<algorithm, "digest">>

HashFile(content, algorithm) == <<algorithm, ToString(content)>>

\* generate_signature_manifest(entries, algorithm=algorithm), then to_dict();
\* raised is TRUE when _hash_file raises ValueError for the algorithm
GenerateSignatureManifest(files, entries, algorithm, clock) ==
    LET onDisk(e) == e.path # NoPath /\ files[e.path] # NoFile
        hashed == SelectSeq(entries, onDisk)
        skipped == SelectSeq(entries, LAMBDA e : ~onDisk(e))
    IN  [raised |-> hashed # << >> /\ algorithm \notin HashAlgorithms,
         algorithm |-> algorithm,
         generated_at |-> IsoFormat(clock),
         artifacts |-> [i \in DOMAIN hashed |->
                          [mapping |-> TRUE,
                           label |-> hashed[i].label,
                           path |-> hashed[i].path,
                           size_bytes |-> (files[hashed[i].path] + 1) \div 2,
                           hash |-> HashFile(files[hashed[i].path], algorithm)]],
         warnings |-> [i \in DOMAIN skipped |->
                          IF skipped[i].path = NoPath
                          THEN <<"Artifact", skipped[i].label, "missing path; skipping signature">>
                          ELSE <<"Artifact", skipped[i].label, "missing on disk at",
                                 ToString(skipped[i].path)>>]]

\* the ArtifactVerification of one dict row in verify_manifest_payload
VerifyArtifact(files, row, manifest_algorithm) ==
    LET exists == row.path # NoPath /\ files[row.path] # NoFile
        supported == manifest_algorithm \in HashAlgorithms
        actual_hash == IF exists /\ supported
                       THEN HashFile(files[row.path], manifest_algorithm)
                       ELSE NoHash
    IN  [label |-> IF row.label = "" THEN "artifact" ELSE row.label,
         path |-> row.path,
         expected_hash |-> row.hash,
         actual_hash |-> actual_hash,
         exists |-> exists,
         matches |-> exists /\ actual_hash # NoHash /\ row.hash # NoHash
                        /\ actual_hash = row.hash,
         size_bytes |-> IF exists THEN (files[row.path] + 1) \div 2 ELSE 0,
         error |-> IF exists /\ ~supported THEN "Unsupported hash algorithm" ELSE NULL]

\* verify_manifest_payload(manifest)
VerifyManifestPayload(files, manifest) ==
    LET manifest_algorithm == IF manifest.algorithm = "" THEN "sha256" ELSE manifest.algorithm
        all == manifest.artifacts
        rows == SelectSeq(all, LAMBDA row : row.mapping)
        warned(row) ==
            IF ~row.mapping THEN << <<"Encountered non-dict artifact entry; skipping">> >>
            ELSE IF row.hash = NoHash
                 THEN << <<"Artifact", IF row.label = "" THEN "artifact" ELSE row.label,
                           "missing expected hash value">> >>
                 ELSE << >>
        manifest_warnings[i \in 0..Len(all)] ==
            IF i = 0 THEN manifest.warnings ELSE manifest_warnings[i - 1] \o warned(all[i])
    IN  [algorithm |-> manifest_algorithm,
         artifacts |-> [i \in DOMAIN rows |-> VerifyArtifact(files, rows[i], manifest_algorithm)],
         warnings |-> manifest_warnings[Len(all)]]

\* verify_manifest_payload(manifest) raises: the TypeError of _hash_file, which
\* the except clauses (ValueError, OSError) around the call do not catch, at
\* the first dict row whose file exists
VerifyRaises(files, manifest) ==
    /\ manifest.algorithm \in XofAlgorithms
    /\ \E i \in DOMAIN manifest.artifacts :
          /\ manifest.artifacts[i].mapping
          /\ manifest.artifacts[i].path # NoPath
          /\ files[manifest.artifacts[i].path] # NoFile

\* ManifestVerificationReport.missing_count
MissingCount(report) ==
    Cardinality({i \in DOMAIN report.artifacts : ~report.artifacts[i].exists})

\* (mutant) mismatch_count counts every artifact that does not match
MismatchCount_NotMatches(report) ==
    Cardinality({i \in DOMAIN report.artifacts : ~report.artifacts[i].matches})

\* ManifestVerificationReport.mismatch_count
MismatchCount(report) ==
    Cardinality({i \in DOMAIN report.artifacts :
                    report.artifacts[i].exists /\ ~report.artifacts[i].matches})

\* ManifestVerificationReport.all_verified
AllVerified(report) == MissingCount(report) = 0 /\ MismatchCount(report) = 0

RECURSIVE SeqsUpTo(_, _)
\* the sequences of at most n members of S
SeqsUpTo(S, n) ==
    IF n = 0 THEN {<< >>}
    ELSE LET shorter == SeqsUpTo(S, n - 1)
         IN  shorter \cup {Append(q, x) : q \in {r \in shorter : Len(r) = n - 1}, x \in S}

\* the (label, path) entries a caller signs
SignEntries == [label : {"manifest"}, path : ArtifactPaths \cup {NoPath}]

\* the artifact rows of a manifest payload written by hand or by another tool
PayloadRows ==
    [mapping : {TRUE}, label : {"manifest"}, path : ArtifactPaths \cup {NoPath},
     hash : {NoHash, <<"deadbeef">>, HashFile(1, "sha256")}]
      \cup {[mapping |-> FALSE, label |-> "", path |-> NoPath, hash |-> NoHash]}

\* the manifest of sg before any is there
NoManifest == [algorithm |-> "", artifacts |-> << >>, warnings |-> << >>]

\* manifest = generate_signature_manifest(entries, algorithm=algorithm).to_dict()
Sign ==
    /\ sg.stage = "start"
    /\ \E entries \in SeqsUpTo(SignEntries, MaxEntries), algorithm \in {"sha256", "sha3-bogus"} :
          LET made == GenerateSignatureManifest(sg.files, entries, algorithm, now)
          IN  sg' = IF made.raised
                    THEN [sg EXCEPT !.stage = "raised"]
                    ELSE [sg EXCEPT !.stage = "signed", !.signed = sg.files,
                                    !.manifest = [algorithm |-> made.algorithm,
                                                  artifacts |-> made.artifacts,
                                                  warnings |-> made.warnings]]
    /\ UNCHANGED <<queueVars, bb, bm>>

\* a manifest payload that was not made here, read from a file
LoadManifest ==
    /\ sg.stage = "start"
    /\ \E rows \in SeqsUpTo(PayloadRows, MaxEntries), algorithm \in {"sha256", "sha3-bogus", "shake_128", ""} :
          sg' = [sg EXCEPT !.stage = "loaded",
                           !.manifest = [algorithm |-> algorithm, artifacts |-> rows,
                                         warnings |-> << >>]]
    /\ UNCHANGED <<queueVars, bb, bm>>

\* a signed file is written with some content
WriteFile(path, content) ==
    /\ sg.stage = "signed"
    /\ sg.files[path] # content
    /\ sg' = [sg EXCEPT !.files[path] = content]
    /\ UNCHANGED <<queueVars, bb, bm>>

\* a signed file is deleted
DeleteFile(path) ==
    /\ sg.stage = "signed"
    /\ sg.files[path] # NoFile
    /\ sg' = [sg EXCEPT !.files[path] = NoFile]
    /\ UNCHANGED <<queueVars, bb, bm>>

\* report = verify_manifest_payload(manifest), one verification pass per run
Verify ==
    /\ sg.stage \in {"signed", "loaded"}
    /\ sg' = IF VerifyRaises(sg.files, sg.manifest)
             THEN [sg EXCEPT !.stage = "verify_raised"]
             ELSE [sg EXCEPT !.stage = "verified", !.by_sign = (sg.stage = "signed"),
                             !.report = VerifyManifestPayload(sg.files, sg.manifest)]
    /\ UNCHANGED <<queueVars, bb, bm>>

SignInit ==
    /\ queue = {}
    /\ queue0 = {}
    /\ lock = 0
    /\ now = 0
    /\ wk = [w \in Workers |-> IdleFrame]
    /\ got = [w \in Workers |-> << >>]
    /\ last = NoCall
    /\ holder = [id \in PlanIds |-> 0]
    /\ bb = Unused
    /\ bm = Unused
    /\ \E files \in [ArtifactPaths -> Contents \cup {NoFile}] :
          sg = [files |-> files, stage |-> "start", manifest |-> NoManifest,
                signed |-> files, by_sign |-> FALSE,
                report |-> VerifyManifestPayload(files, NoManifest)]

SignNext ==
    \/ Sign
    \/ LoadManifest
    \/ \E path \in ArtifactPaths, content \in Contents : WriteFile(path, content)
    \/ \E path \in ArtifactPaths : DeleteFile(path)
    \/ Verify

SignSpec == SignInit /\ [][SignNext]_vars

\* ---------------------------------------------------------- bundle_metrics
\* A metadata value is a Python value: its type and str(value), a sequence of
\* characters where a number or a special word is one piece.
PyValue(type, text) == [type |-> type, text |-> text]

PyNone == PyValue("NoneType", <<"None">>)

\* the amounts around the band thresholds
Amounts == {-5, 0, 1, 49999, 50000, 99999, 100000, 249999, 250000}

\* Decimal values: finite, NaN, Infinity, -Infinity
Dec(kind, n) == [kind |-> kind, n |-> n]

\* Decimal(text): valid is FALSE where it raises InvalidOperation
DecimalOf(text) ==
    IF text \in {<<"NaN">>, <<"nan">>, <<"sNaN">>} THEN [valid |-> TRUE, d |-> Dec("nan", 0)]
    ELSE IF text = <<"Infinity">> THEN [valid |-> TRUE, d |-> Dec("inf", 0)]
    ELSE IF text = <<"-Infinity">> THEN [valid |-> TRUE, d |-> Dec("-inf", 0)]
    ELSE IF \E n \in Amounts : text = <<ToString(n)>>
         THEN [valid |-> TRUE, d |-> Dec("finite", CHOOSE n \in Amounts : text = <<ToString(n)>>)]
         ELSE [valid |-> FALSE, d |-> Dec("finite", 0)]

\* metadata.get(key)
MetadataGet(metadata, key) == IF key \in DOMAIN metadata THEN metadata[key] ELSE PyNone

LossKeys == <<"loss_amount_usd", "loss_usd", "loss_amount", "loss">>

\* _parse_loss
ParseLoss(metadata) ==
    LET parsed(i) == DecimalOf(MetadataGet(metadata, LossKeys[i]).text)
        good == {i \in DOMAIN LossKeys :
                    MetadataGet(metadata, LossKeys[i]) # PyNone /\ parsed(i).valid}
    IN  IF good = {} THEN Dec("finite", 0)
        ELSE parsed(CHOOSE i \in good : \A j \in good : i <= j).d

\* str.strip()
StrStrip(str) ==
    LET inked == {i \in DOMAIN str : str[i] # " "}
    IN  IF inked = {} THEN << >>
        ELSE SubSeq(str, CHOOSE i \in inked : \A j \in inked : i <= j,
                         CHOOSE i \in inked : \A j \in inked : i >= j)

\* str.upper()
StrUpper(str) ==
    LET upper == [u |-> "U", s |-> "S", n |-> "N", y |-> "Y", r |-> "R", x |-> "X",
                  unknown |-> "UNKNOWN"]
    IN  [i \in DOMAIN str |-> IF str[i] \in DOMAIN upper THEN upper[str[i]] ELSE str[i]]

NoStr == <<NULL>>   \* None where a str may stand

\* _first_value
FirstValue(metadata, keys) ==
    LET usable(i) == LET value == MetadataGet(metadata, keys[i])
                     IN  value.type = "str" /\ StrStrip(value.text) # << >>
        found == {i \in DOMAIN keys : usable(i)}
    IN  IF found = {} THEN NoStr
        ELSE StrStrip(MetadataGet(metadata, keys[CHOOSE i \in found : \A j \in found : i <= j]).text)

\* _normalize_country
NormalizeCountry(value) ==
    IF value = NoStr \/ value = << >> THEN NoStr
    ELSE IF StrUpper(StrStrip(value)) = << >> THEN NoStr ELSE StrUpper(StrStrip(value))

\* _derive_geo_bucket
DeriveGeoBucket(jurisdiction, victim_country) ==
    LET token == StrStrip(jurisdiction)
        dashes == {i \in DOMAIN token : token[i] = "-"}
        prefix == SubSeq(token, 1, (CHOOSE i \in dashes : \A j \in dashes : i <= j) - 1)
    IN  IF token # << >>
        THEN IF dashes # {} /\ prefix # << >> THEN StrUpper(prefix) ELSE StrUpper(token)
        ELSE IF victim_country # NoStr THEN victim_country ELSE <<"UNKNOWN">>

\* loss_amount >= Decimal(threshold); a NaN operand raises InvalidOperation
DecGe(d, threshold) ==
    [raised |-> d.kind = "nan",
     value |-> d.kind = "inf" \/ (d.kind = "finite" /\ d.n >= threshold)]

\* _loss_band
LossBand(loss_amount) ==
    IF DecGe(loss_amount, 250000).raised THEN [raised |-> TRUE, band |-> ""]
    ELSE IF DecGe(loss_amount, 250000).value THEN [raised |-> FALSE, band |-> "250k-plus"]
    ELSE IF DecGe(loss_amount, 100000).value THEN [raised |-> FALSE, band |-> "100k-250k"]
    ELSE IF DecGe(loss_amount, 50000).value THEN [raised |-> FALSE, band |-> "50k-100k"]
    ELSE IF loss_amount = Dec("finite", 0) THEN [raised |-> FALSE, band |-> "unknown"]
    ELSE [raised |-> FALSE, band |-> "below-50k"]

\* compute_bundle_metrics(metadata); payload is metadata or {}
ComputeBundleMetrics(payload) ==
    LET loss_amount == ParseLoss(payload)
        found == FirstValue(payload, <<"jurisdiction", "victim_jurisdiction",
                                       "victim_state", "victim_country">>)
        jurisdiction == StrStrip(IF found = NoStr THEN <<"unknown">> ELSE found)
        victim_country == NormalizeCountry(
            FirstValue(payload, <<"victim_country", "victim_state", "jurisdiction_country">>))
        offender_country == NormalizeCountry(
            FirstValue(payload, <<"offender_country", "scammer_country", "jurisdiction_country">>))
    IN  [raised |-> LossBand(loss_amount).raised,
         loss_amount_usd |-> loss_amount,
         loss_band |-> LossBand(loss_amount).band,
         jurisdiction |-> IF jurisdiction = << >> THEN <<"unknown">> ELSE jurisdiction,
         geo_bucket |-> DeriveGeoBucket(jurisdiction, victim_country),
         victim_country |-> victim_country,
         offender_country |-> offender_country,
         cross_border |-> victim_country # NoStr /\ offender_country # NoStr
                            /\ victim_country # offender_country]

\* the values a loss key may hold: numbers, text, a float nan, a list
LossValues ==
    {PyValue("int", <<ToString(n)>>) : n \in Amounts}
      \cup {PyValue("str", t) : t \in {<<"a", "b", "c">>, << >>, <<"NaN">>, <<"Infinity">>,
                                       <<"-Infinity">>, <<"50000">>}}
      \cup {PyValue("float", <<"nan">>), PyValue("list", <<"[", "1", "]">>)}

\* the values a place key may hold
PlaceValues ==
    {PyValue("str", t) : t \in {<<"u", "s", "-", "n", "y">>, <<" ", "U", "S", " ">>,
                                <<"r", "u">>, <<" ">>, <<"-", "x">>}}
      \cup {PyValue("int", <<"5">>)}

PlaceKeys ==
    {"jurisdiction", "victim_jurisdiction", "victim_state", "victim_country",
     "jurisdiction_country", "offender_country", "scammer_country"}

\* the metadata mappings with at most MaxKeys keys
Metadatas ==
    LET keys == {LossKeys[i] : i \in DOMAIN LossKeys} \cup PlaceKeys
    IN  UNION {{md \in [K -> LossValues \cup PlaceValues] :
                   \A k \in K : md[k] \in (IF k \in PlaceKeys THEN PlaceValues ELSE LossValues)}
                 : K \in {K \in SUBSET keys : Cardinality(K) <= MaxKeys}}

\* metrics = compute_bundle_metrics(metadata)
Compute ==
    /\ bm.stage = "input"
    /\ LET metrics == ComputeBundleMetrics(IF bm.given THEN bm.metadata ELSE << >>)
       IN  bm' = [bm EXCEPT !.stage = IF metrics.raised THEN "raised" ELSE "returned",
                            !.metrics = metrics]
    /\ UNCHANGED <<queueVars, bb, sg>>

MetricsInit ==
    /\ queue = {}
    /\ queue0 = {}
    /\ lock = 0
    /\ now = 0
    /\ wk = [w \in Workers |-> IdleFrame]
    /\ got = [w \in Workers |-> << >>]
    /\ last = NoCall
    /\ holder = [id \in PlanIds |-> 0]
    /\ bb = Unused
    /\ sg = Unused
    /\ \E metadata \in Metadatas, given \in BOOLEAN :
          /\ given \/ metadata = << >>
          /\ bm = [given |-> given, metadata |-> metadata, stage |-> "input",
                   metrics |-> [raised |-> FALSE]]

MetricsNext == Compute

MetricsSpec == MetricsInit /\ [][MetricsNext]_vars

\* ------------------------------------------------------------------ claims
\* the plan ids lease_next has returned to direct caller w (None left out)
Returned(w) == {i \in DOMAIN got[w] : got[w][i] # 0}

\* C1: with no enqueue_plan or reset in between, no two lease_next calls, of one
\* worker or of two, return the same plan_id
C1_NoDuplicateLease ==
    \A w1, w2 \in Workers : \A i \in Returned(w1), j \in Returned(w2) :
        (w1 # w2 \/ i # j) => got[w1][i] # got[w2][j]

\* two workers have each been handed an entry
C1_Witness ==
    \E w1, w2 \in Workers :
        /\ w1 # w2
        /\ Returned(w1) # {}
        /\ Returned(w2) # {}

Leased(q) == {r \in q : r.status = "leased"}

\* every worker has called lease_next once, the call has returned, and nothing
\* but these calls has run on a table of M >= N pending entries
ConcurrentLeaseDone ==
    /\ \A w \in Workers : Len(got[w]) = 1 /\ Frame(w).pc = "idle"
    /\ \A r \in queue : r.status \in {"pending", "leased"}
    /\ Cardinality(queue) >= NumWorkers

\* C3: N concurrent lease_next calls on M >= N pending entries all return an
\* entry, the N entries are pairwise distinct, and exactly N entries are leased
C3_ConcurrentLeasesDistinct ==
    ConcurrentLeaseDone =>
        /\ \A w \in Workers : got[w][1] # 0
        /\ \A w1, w2 \in Workers : w1 # w2 => got[w1][1] # got[w2][1]
        /\ Cardinality(Leased(queue)) = NumWorkers

C3_Witness ==
    /\ ConcurrentLeaseDone
    /\ Cardinality(Leased(queue)) = NumWorkers

\* the plan worker w is processing: from the return of its lease_next until its
\* reset, mark_complete or mark_failed (0: none)
ProcessingId(w) ==
    IF Frame(w).caller = "batch" /\ Frame(w).pc = "lease_ret"
    THEN Frame(w).leased.plan_id
    ELSE IF Frame(w).pc \in {"reset", "generate", "mark_complete", "mark_failed"}
         THEN Frame(w).plan.plan_id
         ELSE 0

\* C2: at no time are two workers processing the same plan_id
C2_NoTwoWorkersOnOnePlan ==
    \A w1, w2 \in Workers :
        (w1 # w2 /\ ProcessingId(w1) # 0) => ProcessingId(w1) # ProcessingId(w2)

\* what enqueue_plan(plan) must leave behind in table q
EnqueuedClean(q, plan) ==
    /\ Cardinality(RowsOf(q, plan.plan_id)) = 1
    /\ \A r \in RowsOf(q, plan.plan_id) :
          /\ r.status = "pending"
          /\ r.error = NULL
          /\ r.warnings = NULL
          /\ FromDict(r.payload) = plan
    /\ GetPlan(q, plan.plan_id).warnings = << >>

\* C4: every enqueue_plan(plan) step leaves exactly one entry with plan.plan_id,
\* pending, without error or warnings and with the new plan as payload, whatever
\* the entry was before
C4_EnqueueResetsEntry ==
    [][\A id \in PlanIds, body \in Bodies, priority \in Priorities :
          Enqueue(id, body, priority) => EnqueuedClean(queue', DossierPlan(id, body))]_vars

\* an entry that was leased, completed or failed is pending under a new payload
C4_Witness ==
    \E id \in PlanIds :
        /\ GetPlan(queue0, id).status \in {"leased", "completed", "failed"}
        /\ GetPlan(queue, id).status = "pending"
        /\ GetPlan(queue, id).payload # GetPlan(queue0, id).payload

CountStatus(plans, status) ==
    Cardinality({i \in DOMAIN plans : plans[i].status = status})

\* C5: a batch that is not a dry run and runs alone returns, whatever the
\* generator raised, after leasing every pending entry up to batch_size; the
\* counts add up and each entry generated stays completed
C5_FailureDoesNotAbortBatch ==
    LET f == Frame(Solo)
    IN  /\ f.pc # "raised"
        /\ (f.pc = "returned" /\ ~f.dry_run) =>
              /\ f.processed = Min(f.batch_size, Cardinality(Pending(queue0)))
              /\ f.processed = f.completed + f.failed
              /\ f.completed = CountStatus(f.plans, "completed")
              /\ f.failed = CountStatus(f.plans, "failed")
              /\ \A i \in DOMAIN f.plans :
                    f.plans[i].status = "completed" =>
                        GetPlan(queue, f.plans[i].plan_id).status = "completed"

\* two pending plans, the second one's generator raised: processed=2,
\* completed=1, failed=1
C5_Witness ==
    LET f == Frame(Solo)
    IN  /\ f.pc = "returned"
        /\ ~f.dry_run
        /\ Cardinality(Pending(queue0)) = 2
        /\ f.processed = 2 /\ f.completed = 1 /\ f.failed = 1
        /\ f.plans[1].status = "completed"
        /\ f.plans[2].status = "failed"

\* C6: in a batch running alone, the entry of every plan whose generator raised
\* is failed, holds the exception's message as error, and has the payload it had
C6_FailureRecorded ==
    LET f == Frame(Solo)
    IN  \A i \in DOMAIN f.plans :
            f.plans[i].status = "failed" =>
                LET entry == GetPlan(queue, f.plans[i].plan_id)
                IN  /\ f.plans[i].error \in GenErrors
                    /\ entry.status = "failed"
                    /\ entry.error = f.plans[i].error
                    /\ entry.payload = GetPlan(queue0, f.plans[i].plan_id).payload
                    /\ entry.payload.plan_id = f.plans[i].plan_id

\* the batch has gone on after a plan whose generator raised
C6_Witness ==
    LET f == Frame(Solo)
    IN  /\ f.pc = "lease"
        /\ f.failed = 1
        /\ GetPlan(queue, f.plans[1].plan_id).error \in GenErrors

\* C7: a reporter whose update() raises changes nothing: no exception of the
\* reporter leaves process_batch or reaches the queue or the summary, and the
\* counts are those of the batch without a reporter
C7_ReporterFailureIgnored ==
    LET f == Frame(Solo)
    IN  /\ f.raised # ReporterError
        /\ \A r \in queue : r.error # ReporterError
        /\ \A i \in DOMAIN f.plans : f.plans[i].error # ReporterError
        /\ f.pc = "returned" => f.processed = f.completed + f.failed + CountStatus(f.plans, "dry-run")

\* C8: a store call that cannot complete is never recorded as the failure of a
\* plan's generation
C8_StoreFailurePropagates ==
    LET f == Frame(Solo)
    IN  /\ \A i \in DOMAIN f.plans : f.plans[i].error # StoreError
        /\ \A r \in queue : r.error # StoreError
        /\ f.exc # StoreError

\* C9: when a dry run running alone returns, every entry it leased is pending
\* with the payload it had, no entry has become completed or failed, and the
\* summary counts no completed and no failed plan and says "dry-run" for each
C9_DryRunRestoresPending ==
    LET f == Frame(Solo)
    IN  (f.pc = "returned" /\ f.dry_run) =>
            /\ f.completed = 0
            /\ f.failed = 0
            /\ Len(f.plans) = f.processed
            /\ \A i \in DOMAIN f.plans :
                  /\ f.plans[i].status = "dry-run"
                  /\ GetPlan(queue, f.plans[i].plan_id).status = "pending"
                  /\ GetPlan(queue, f.plans[i].plan_id).payload
                        = GetPlan(queue0, f.plans[i].plan_id).payload
                  /\ GetPlan(queue0, f.plans[i].plan_id).status = "pending"
            /\ \A id \in PlanIds :
                  GetPlan(queue, id).status \in {"completed", "failed"} =>
                      GetPlan(queue0, id) = GetPlan(queue, id)

\* a dry run has inspected two entries and returned
C9_Witness ==
    LET f == Frame(Solo)
    IN  /\ f.pc = "returned"
        /\ f.dry_run
        /\ f.processed = 2

\* C10: in a batch running alone, the entry of every plan generated is completed,
\* without error, and its stored warnings are the generator's list of warnings
C10_SuccessRecorded ==
    LET f == Frame(Solo)
    IN  \A i \in DOMAIN f.plans :
            f.plans[i].status = "completed" =>
                LET entry == GetPlan(queue, f.plans[i].plan_id)
                IN  /\ entry.status = "completed"
                    /\ entry.error = NULL
                    /\ entry.warnings = f.plans[i].warnings
                    /\ \A r \in RowsOf(queue, f.plans[i].plan_id) :
                          r.warnings = JsonDumps(f.plans[i].warnings)

\* a batch has completed one plan with a warning and one without
C10_Witness ==
    LET f == Frame(Solo)
    IN  /\ f.pc = "returned"
        /\ f.completed = 2
        /\ f.plans[1].warnings = <<"case-warning">>
        /\ f.plans[2].warnings = << >>
        /\ GetPlan(queue, f.plans[1].plan_id).warnings = <<"case-warning">>
        /\ GetPlan(queue, f.plans[2].plan_id).warnings = << >>

\* C11: the row lease_next selects is the pending entry with the smallest
\* queued_at and, among entries with that queued_at, the smallest plan_id
C11_LeaseOldestThenSmallestId ==
    \A w \in Workers :
        Frame(w).pc = "lease_upd" =>
            \A o \in Pending(queue) :
                \/ Frame(w).row.queued_at < o.queued_at
                \/ /\ Frame(w).row.queued_at = o.queued_at
                   /\ Frame(w).row.plan_id <= o.plan_id

\* a direct status call on plan id
StatusCall(id) ==
    \/ \E ws \in WarningLists \cup {NoWarnings} : MarkComplete(id, ws)
    \/ \E e \in GenErrors : MarkFailed(id, e)
    \/ Reset(id)

\* C12: mark_complete, mark_failed and reset on a plan_id without an entry can be
\* called, create no entry and leave the table as it was
C12_StatusCallOnMissingIsNoOp ==
    [][\A id \in PlanIds :
          (RowsOf(queue, id) = {} /\ StatusCall(id)) => queue' = queue]_vars

\* one of the three methods has just been called on a plan id that has no
\* entry, in a table that holds another entry
C12_Witness ==
    /\ last.op \in {"mark_complete", "mark_failed", "reset"}
    /\ RowsOf(queue, last.plan_id) = {}
    /\ queue # {}

\* a step of some lease_next call
LeaseStep == \E w \in Workers : LeaseBegin(w) \/ LeaseSelect(w) \/ LeaseUpdate(w)

C14_KilledWorkersEntryStaysLeased ==
    \A id \in PlanIds :
        (holder[id] # 0 /\ Frame(holder[id]).pc = "killed") =>
            GetPlan(queue, id).status = "leased"

\* C15: a generate_plans call that repeats a call with the same candidate list,
\* criteria and given reference_time returns the plans the first call returned,
\* whatever the clock has done in between
C15_GeneratePlansDeterministic ==
    [][(CallGeneratePlans /\ bb.calls >= 1 /\ bb.reference_time.given)
          => bb'.plans = bb.plans]_vars

\* the second of two calls, made on a later day than the first, has returned
\* two plans
C15_Witness ==
    /\ bb.calls = 2
    /\ bb.reference_time.given
    /\ bb.called_at < now
    /\ Len(bb.plans) >= 2

RECURSIVE MemberLossSum(_)
\* the sum of the members' loss_amount_usd, taken from the first member on
MemberLossSum(cases) ==
    IF cases = << >> THEN 0 ELSE Head(cases).loss_amount_usd + MemberLossSum(Tail(cases))

\* C16: every plan generate_plans returns has total_loss_usd equal to the sum of
\* the loss_amount_usd of its cases
C16_TotalLossIsSumOfMembers ==
    \A i \in DOMAIN bb.plans :
        bb.plans[i].total_loss_usd = MemberLossSum(bb.plans[i].cases)

\* a group of two candidates has been returned as two plans of one case each
C16_Witness ==
    /\ bb.calls >= 1
    /\ Len(bb.plans) = 2
    /\ bb.plans[1].jurisdiction_key = bb.plans[2].jurisdiction_key
    /\ \A i \in DOMAIN bb.plans :
          /\ Len(bb.plans[i].cases) = 1
          /\ bb.plans[i].total_loss_usd = MinLossUsd + 1

\* C17: from_dict(p.to_dict()) is equal to p for every constructed plan p
C17_RoundTripEqual ==
    bb.stage = "restored" => bb.restored = bb.plan

\* the rows of the manifest that declare an artifact
DeclaredRows == {i \in DOMAIN sg.manifest.artifacts : sg.manifest.artifacts[i].mapping}

\* a declared artifact has no file on disk
FileMissing(i) ==
    LET row == sg.manifest.artifacts[i]
    IN  row.path = NoPath \/ sg.files[row.path] = NoFile

\* a declared artifact's file is there and its hash recomputed under the
\* manifest's algorithm is not the expected one
FileMismatch(i) ==
    LET row == sg.manifest.artifacts[i]
        algorithm == IF sg.manifest.algorithm = "" THEN "sha256" ELSE sg.manifest.algorithm
    IN  /\ ~FileMissing(i)
        /\ \/ algorithm \notin HashAlgorithms
           \/ row.hash # HashFile(sg.files[row.path], algorithm)

\* C18: a verification report's missing_count is the number of declared
\* artifacts without a file, its mismatch_count the number of those whose file
\* exists with another hash than expected, none is counted twice, all_verified
\* is true exactly when both are zero, and one declared artifact whose file is
\* deleted gives missing_count = 1 and all_verified false
C18_ReportCounts ==
    [][(Verify /\ sg'.stage = "verified") =>
         LET report == sg'.report
         IN  /\ MissingCount(report) = Cardinality({i \in DeclaredRows : FileMissing(i)})
             /\ MismatchCount(report) = Cardinality({i \in DeclaredRows : FileMismatch(i)})
             /\ MissingCount(report) + MismatchCount(report) <= Cardinality(DeclaredRows)
             /\ AllVerified(report) <=> (MissingCount(report) = 0 /\ MismatchCount(report) = 0)
             /\ AllVerified(report) <=> \A i \in DeclaredRows : ~FileMissing(i) /\ ~FileMismatch(i)
             /\ (Cardinality(DeclaredRows) = 1 /\ \E i \in DeclaredRows : FileMissing(i))
                   => (MissingCount(report) = 1 /\ ~AllVerified(report))]_vars

\* a manifest declaring one artifact without a file and one whose file has
\* another hash than expected has been verified
C18_Witness ==
    /\ sg.stage = "verified"
    /\ Len(sg.report.artifacts) = 2
    /\ MissingCount(sg.report) = 1
    /\ MismatchCount(sg.report) = 1
    /\ ~AllVerified(sg.report)

\* the paths signed in the manifest
SignedPaths == {sg.manifest.artifacts[i].path : i \in DOMAIN sg.manifest.artifacts}

\* C19: verifying a manifest made by generate_signature_manifest reports
\* all_verified while every signed file has the content it was signed with,
\* mismatch_count >= 1 once a signed file holds other content, missing_count >= 1
\* once a signed file is deleted, and all_verified false in both cases
C19_SignThenVerifyDetectsTampering ==
    [][(Verify /\ sg.stage = "signed") =>
         LET report == sg'.report
         IN  /\ (\A p \in SignedPaths : sg.files[p] = sg.signed[p]) => AllVerified(report)
             /\ (\E p \in SignedPaths : sg.files[p] \notin {NoFile, sg.signed[p]})
                   => (MismatchCount(report) >= 1 /\ ~AllVerified(report))
             /\ (\E p \in SignedPaths : sg.files[p] = NoFile)
                   => (MissingCount(report) >= 1 /\ ~AllVerified(report))]_vars

\* a signed manifest of two files was verified after one file was rewritten and
\* the other deleted
C19_Witness ==
    /\ sg.stage = "verified"
    /\ sg.by_sign
    /\ Len(sg.manifest.artifacts) = 2
    /\ \E p, q \in ArtifactPaths :
          /\ sg.signed[p] # NoFile /\ sg.files[p] \notin {NoFile, sg.signed[p]}
          /\ sg.signed[q] # NoFile /\ sg.files[q] = NoFile
    /\ MismatchCount(sg.report) = 1
    /\ MissingCount(sg.report) = 1

\* C20: compute_bundle_metrics never raises, whatever the metadata, and its
\* loss amount is zero when no loss key holds a valid decimal
C20_ComputeNeverRaises ==
    /\ bm.stage # "raised"
    /\ (bm.stage = "returned"
          /\ \A i \in DOMAIN LossKeys :
                ~DecimalOf(MetadataGet(bm.metadata, LossKeys[i]).text).valid)
        => bm.metrics.loss_amount_usd = Dec("finite", 0)

\* the plan ids the solo batch has leased in its call: those recorded and the
\* one in hand
LeasedInCall ==
    {Frame(Solo).plans[i].plan_id : i \in DOMAIN Frame(Solo).plans}
      \cup ({Frame(Solo).plan.plan_id} \ {0})

\* C21: when process_batch has ended, by returning or by raising, no entry it
\* leased in the call is still leased
C21_NoEntryLeftLeased ==
    Frame(Solo).pc \in {"returned", "raised"} =>
        \A id \in LeasedInCall : GetPlan(queue, id).status # "leased"

\* C22: a process_batch call running alone leases each entry at most once: no
\* plan_id is twice among its outcomes and processed is the number of distinct
\* entries, in a dry run as well
C22_EachEntryLeasedOnce ==
    LET f == Frame(Solo)
    IN  f.pc = "returned" =>
            /\ \A i, j \in DOMAIN f.plans : i # j => f.plans[i].plan_id # f.plans[j].plan_id
            /\ f.processed = Cardinality({f.plans[i].plan_id : i \in DOMAIN f.plans})

\* C23: when a process_batch that is not a dry run returns, processed =
\* completed + failed and the outcome list has processed entries, one per plan
\* leased, whatever the generator and the reporter did
C23_CountsAddUp ==
    LET f == Frame(Solo)
    IN  (f.pc = "returned" /\ ~f.dry_run) =>
            /\ f.processed = f.completed + f.failed
            /\ Len(f.plans) = f.processed
            /\ \A i, j \in DOMAIN f.plans : i # j => f.plans[i].plan_id # f.plans[j].plan_id

\* C24: in every state of the queue an entry holds an error only when it is
\* failed and warnings only when it is completed
C24_ErrorAndWarningsFollowStatus ==
    \A r \in queue :
        /\ r.error # NULL => r.status = "failed"
        /\ r.warnings # NULL => r.status = "completed"
        /\ RowToDict(r).warnings # << >> => r.status = "completed"

\* the queue holds a failed entry with its error beside an entry that was reset
\* to pending, as a lease_next call has returned
C24_Witness ==
    /\ last.op = "reset"
    /\ \E r \in queue : r.status = "pending" /\ r.plan_id = last.plan_id
    /\ \E r \in queue : r.status = "failed" /\ r.error \in GenErrors
    /\ Frame(Solo).pc = "idle"

\* C25: while only process_batch workers act, an entry that is completed or
\* failed keeps its status, its error and its warnings in every step
C25_CompletedAndFailedAreTerminal ==
    [][\A r \in queue :
          r.status \in {"completed", "failed"} =>
              \E n \in queue' :
                  /\ n.plan_id = r.plan_id
                  /\ n.status = r.status
                  /\ n.error = r.error
                  /\ n.warnings = r.warnings]_vars

\* one worker has returned from a batch that completed or failed an entry, and
\* another worker, in a dry run, is about to reset the other entry
C25_Witness ==
    \E w1, w2 \in Workers :
        /\ Frame(w1).pc = "returned"
        /\ Frame(w1).completed + Frame(w1).failed = 1
        /\ GetPlan(queue, Frame(w1).plans[1].plan_id).status \in {"completed", "failed"}
        /\ GetPlan(queue0, Frame(w1).plans[1].plan_id).status = "pending"
        /\ Frame(w2).pc = "reset"

\* C26: no starvation.  With workers that keep running non-dry-run batches
\* (weak fairness on each worker's steps, every generation returning or raising)
\* and producers that enqueue whenever they like, an entry that is pending and
\* was enqueued before the present clock reading is eventually leased, unless
\* it is itself enqueued again (which stamps it with the present reading).
C26_PendingEventuallyLeased ==
    \A id \in PlanIds :
        (\E r \in queue : r.plan_id = id /\ r.status = "pending" /\ r.queued_at < now)
          ~> (\E r \in queue : r.plan_id = id
                                /\ (r.status = "leased" \/ r.queued_at = now))

\* an entry that waited while a plan enqueued later was there is leased
C26_Witness ==
    \E r, n \in queue :
        /\ r.status = "leased" /\ r.queued_at < now
        /\ n.status = "pending" /\ n.queued_at = now /\ n.plan_id # r.plan_id
        /\ \E o \in queue0 : o.plan_id = r.plan_id /\ o.status = "pending"
        /\ \A o \in queue0 : o.plan_id # n.plan_id

\* C27: reset(plan_id) on an existing entry, whatever its status, makes it
\* pending with error and warnings cleared, keeps its payload, priority and
\* queued_at, leaves every other entry as it was, and the entry is then among
\* the pending entries lease_next selects from.
C27_ResetEffect ==
    [][\A id \in PlanIds :
          (Reset(id) /\ RowsOf(queue, id) # {}) =>
              /\ \A o \in queue : o.plan_id # id => o \in queue'
              /\ {n.plan_id : n \in queue'} = {o.plan_id : o \in queue}
              /\ Cardinality(RowsOf(queue', id)) = 1
              /\ \A n \in RowsOf(queue', id) :
                    /\ n.status = "pending"
                    /\ n.error = NULL
                    /\ n.warnings = NULL
                    /\ RowToDict(n).warnings = << >>
                    /\ n \in Pending(queue')
                    /\ \A o \in RowsOf(queue, id) :
                          /\ n.payload = o.payload
                          /\ n.priority = o.priority
                          /\ n.queued_at = o.queued_at]_vars

\* a failed entry enqueued before the present time was reset and the lease_next
\* that followed returned it; the other entry is as it was
C27_Witness ==
    \E id \in PlanIds :
        /\ last = Call("reset", id)
        /\ \E o \in RowsOf(queue0, id) : o.status = "failed" /\ o.queued_at < now
        /\ \E n \in RowsOf(queue, id) :
              n.status = "leased" /\ n.error = NULL /\ n.queued_at < now
        /\ got[Solo] = <<id>>
        /\ \E o \in queue : o.plan_id # id /\ o \in queue0

\* C28: a lease_next that finds no pending entry returns None and changes
\* nothing.  Its BEGIN changes no row; while its transaction is open and no
\* entry is pending, no step changes a row and the caller's own step is the
\* return of None with the transaction closed; and when None has come back
\* and nothing else was called, every row (status, payload, timestamps, error,
\* warnings) is what it was before the call.
C28_EmptyLeaseChangesNothing ==
    /\ []((got[Solo] = <<0>> /\ last = NoCall) => queue = queue0)
    /\ [][\A w \in Workers :
             /\ LeaseBegin(w) => queue' = queue
             /\ (Frame(w).pc = "lease_sel" /\ Pending(queue) = {}) =>
                    /\ queue' = queue
                    /\ wk'[w] # wk[w] =>
                          /\ wk'[w].pc = "lease_ret"
                          /\ wk'[w].leased = None
                          /\ lock' = 0]_vars

\* lease_next returned None on a table that holds entries, none of them pending
C28_Witness ==
    /\ got[Solo] = <<0>>
    /\ last = NoCall
    /\ Pending(queue) = {}
    /\ \E r \in queue : r.status = "failed" /\ r.updated_at < now
    /\ \E r \in queue : r.status = "leased"

\* the batch is inside a lease_next call
SoloInLease == Frame(Solo).pc \in {"lease", "lease_sel", "lease_upd", "lease_ret"}

\* C29: process_batch terminates after at most batch_size lease attempts.
\* A lease_next is attempted only with fewer than batch_size turns done, every
\* turn that got an entry is counted before the next attempt, processed never
\* exceeds batch_size, a lease_next that returns None ends the loop, a
\* batch_size of zero or less leases and processes nothing, and every call
\* that has started returns.
C29_BatchTerminates ==
    /\ [](Frame(Solo).pc # "idle" =>
             /\ SoloInLease => Frame(Solo).iter < Frame(Solo).batch_size
             /\ Frame(Solo).processed <= Frame(Solo).iter + 1
             /\ Frame(Solo).batch_size > 0 =>
                   /\ Frame(Solo).iter <= Frame(Solo).batch_size
                   /\ Frame(Solo).processed <= Frame(Solo).batch_size
             /\ Frame(Solo).batch_size <= 0 =>
                   /\ Frame(Solo).pc \in {"loop", "finish", "returned"}
                   /\ Frame(Solo).processed = 0 /\ Frame(Solo).plans = << >>
                   /\ queue = queue0)
    /\ [][/\ (Frame(Solo).pc = "lease_ret" /\ Frame(Solo).leased = None)
                 => wk'[Solo].pc = "finish"
          /\ Frame(Solo).pc = "finish" => wk'[Solo].pc = "returned"
          /\ Frame(Solo).pc = "returned" => wk'[Solo] = wk[Solo]
          /\ Frame(Solo).pc # "idle" => wk'[Solo].iter >= Frame(Solo).iter
          /\ (~SoloInLease /\ wk'[Solo].pc = "lease") => Frame(Solo).pc = "loop"
          /\ (SoloInLease /\ wk'[Solo].pc = "loop")
                 => wk'[Solo].iter = Frame(Solo).iter + 1]_vars
    /\ (Frame(Solo).pc = "loop") ~> (Frame(Solo).pc = "returned")

\* a batch of size one returned with one entry processed and another still pending
C29_Witness ==
    LET f == Frame(Solo)
    IN  /\ f.pc = "returned"
        /\ ~f.dry_run
        /\ f.batch_size = 1
        /\ f.processed = 1
        /\ f.iter = 1
        /\ Pending(queue) # {}

\* C30: when build_and_enqueue has returned, the list returned holds the id of
\* each generated plan, in order, and each generated plan has a pending entry
\* in the queue under its id whose payload is that plan's serialization.
C30_EveryPlanEnqueued ==
    bb.pc = "returned" =>
        /\ Len(bb.enqueued) = Len(bb.plans)
        /\ \A i \in DOMAIN bb.plans :
              /\ bb.enqueued[i] = bb.plans[i].plan_id
              /\ \E r \in queue :
                    /\ r.plan_id = bb.plans[i].plan_id
                    /\ r.status = "pending"
                    /\ r.payload = ToDict(QueuedPlan(bb.plans[i]))

\* C31: the plans one generate_plans call returns have pairwise distinct
\* plan ids, whatever the candidates' jurisdictions and the criteria
C31_PlanIdsDistinct ==
    \A i, j \in DOMAIN bb.plans :
        i # j => bb.plans[i].plan_id # bb.plans[j].plan_id

\* the reference time of the generate_plans call that returned bb.plans
LastReferenceTime ==
    IF bb.reference_time.given THEN bb.reference_time.at
    ELSE IF bb.calls = 1 THEN bb.called_at ELSE now

\* the candidate is one the filter keeps, by the three conditions of the rule
PassesFilter(candidate) ==
    /\ candidate.loss_amount_usd >= bb.criteria.min_loss_usd
    /\ candidate.accepted_at >= LastReferenceTime - bb.criteria.recency_days
    /\ bb.criteria.require_cross_border => candidate.cross_border

\* the places (plan, position) at which bb.plans holds the candidate
PlacesOf(candidate) ==
    UNION {{<<i, j>> : j \in {k \in DOMAIN bb.plans[i].cases : bb.plans[i].cases[k] = candidate}}
             : i \in DOMAIN bb.plans}

\* C32: generate_plans partitions the survivors.  Each candidate of the input
\* that passes the filter is a member of exactly one returned plan, once; a
\* candidate that does not pass is in none; every member of a plan is a candidate
\* of the input.
C32_PlansPartitionSurvivors ==
    bb.calls >= 1 =>
        /\ \A k \in DOMAIN bb.candidates :
              Cardinality(PlacesOf(bb.candidates[k]))
                  = IF PassesFilter(bb.candidates[k]) THEN 1 ELSE 0
        /\ \A i \in DOMAIN bb.plans : \A j \in DOMAIN bb.plans[i].cases :
              \E k \in DOMAIN bb.candidates : bb.plans[i].cases[j] = bb.candidates[k]

\* two survivors of one jurisdiction, one case per dossier: two plans, the
\* first candidate in the first, the second in the second
C32_Witness ==
    /\ bb.calls = 1
    /\ Len(bb.candidates) = 2
    /\ bb.criteria.max_cases_per_dossier = 1
    /\ bb.candidates[1].jurisdiction = bb.candidates[2].jurisdiction
    /\ Len(bb.plans) = 2
    /\ bb.plans[1].cases = <<bb.candidates[1]>>
    /\ bb.plans[2].cases = <<bb.candidates[2]>>

\* C33: every plan generate_plans returns has at least one member
C33_NoEmptyPlan ==
    \A i \in DOMAIN bb.plans : Len(bb.plans[i].cases) >= 1

\* C34: every member of every returned plan passes the filter (loss at least
\* min_loss_usd, accepted no earlier than reference_time - recency_days,
\* cross-border when that is required); and when exactly one candidate of the
\* list passes, exactly one plan is returned and it holds that candidate only.
C34_MembersPassFilter ==
    bb.calls >= 1 =>
        /\ \A i \in DOMAIN bb.plans : \A j \in DOMAIN bb.plans[i].cases :
              PassesFilter(bb.plans[i].cases[j])
        /\ \A k \in DOMAIN bb.candidates :
              (\A n \in DOMAIN bb.candidates : PassesFilter(bb.candidates[n]) <=> n = k)
                  => /\ Len(bb.plans) = 1
                     /\ bb.plans[1].cases = <<bb.candidates[k]>>

\* of two candidates of one jurisdiction with a loss that is not below the
\* minimum, the second accepted before the cutoff, one plan holding the first
\* was returned
C34_Witness ==
    /\ bb.calls = 1
    /\ Len(bb.candidates) = 2
    /\ bb.candidates[1].jurisdiction = bb.candidates[2].jurisdiction
    /\ bb.candidates[1].loss_amount_usd > bb.criteria.min_loss_usd
    /\ bb.candidates[2].loss_amount_usd = bb.criteria.min_loss_usd
    /\ bb.candidates[2].accepted_at < LastReferenceTime - bb.criteria.recency_days
    /\ Len(bb.plans) = 1
    /\ bb.plans[1].cases = <<bb.candidates[1]>>

\* the key of the group the rule puts a survivor in
GroupKeyOf(candidate) ==
    IF bb.criteria.jurisdiction_mode = "global" THEN <<"global">>
    ELSE IF bb.criteria.jurisdiction_mode = "multi" /\ candidate.cross_border
         THEN <<"cross-border">>
    ELSE IF candidate.jurisdiction = << >> THEN <<"unknown">>
    ELSE candidate.jurisdiction

\* the positions in the input (a candidate's case_id is its position) of the
\* members of the plans of one group
PositionsOfGroup(key) ==
    UNION {{bb.plans[i].cases[j].case_id : j \in DOMAIN bb.plans[i].cases}
             : i \in {n \in DOMAIN bb.plans : bb.plans[n].jurisdiction_key = key}}

\* C35: grouping follows the jurisdiction mode.  Every member of a plan is in
\* the group of its rule: "global" in global mode; "cross-border" for a
\* cross-border survivor in multi mode; else its jurisdiction, "unknown" for an
\* empty one.  The plans of one group come one after the other, and groups come
\* in the order in which their first member occurs in the input.
C35_GroupingFollowsMode ==
    bb.calls >= 1 =>
        /\ \A i \in DOMAIN bb.plans :
              /\ \A j \in DOMAIN bb.plans[i].cases :
                    bb.plans[i].jurisdiction_key = GroupKeyOf(bb.plans[i].cases[j])
              /\ bb.criteria.jurisdiction_mode = "global" =>
                    bb.plans[i].jurisdiction_key = <<"global">>
        /\ \A i, j \in DOMAIN bb.plans :
              (i < j /\ bb.plans[i].jurisdiction_key = bb.plans[j].jurisdiction_key) =>
                  \A n \in i..j : bb.plans[n].jurisdiction_key = bb.plans[i].jurisdiction_key
        /\ \A i, j \in DOMAIN bb.plans :
              (i < j /\ bb.plans[i].jurisdiction_key # bb.plans[j].jurisdiction_key) =>
                  \E first \in PositionsOfGroup(bb.plans[i].jurisdiction_key) :
                      \A other \in PositionsOfGroup(bb.plans[j].jurisdiction_key) :
                          first < other

\* multi mode: a candidate without jurisdiction, then a cross-border one of
\* jurisdiction "A": the plan of group "unknown", then that of "cross-border"
C35_Witness ==
    /\ bb.calls = 1
    /\ bb.criteria.jurisdiction_mode = "multi"
    /\ Len(bb.candidates) = 2
    /\ bb.candidates[1].jurisdiction = << >> /\ ~bb.candidates[1].cross_border
    /\ bb.candidates[2].jurisdiction = <<"A">> /\ bb.candidates[2].cross_border
    /\ Len(bb.plans) = 2
    /\ bb.plans[1].jurisdiction_key = <<"unknown">>
    /\ bb.plans[2].jurisdiction_key = <<"cross-border">>

\* the number of plans of the group of plan i up to and including plan i
RankInGroup(i) ==
    Cardinality({n \in 1..i : bb.plans[n].jurisdiction_key = bb.plans[i].jurisdiction_key})

\* C36: within a group the plans are consecutive chunks of its survivors in
\* input order.  The members of a plan are in input order and come before those
\* of the next plan of the group; with max_cases_per_dossier > 0 a plan has at
\* most that many members and exactly that many when another plan of its group
\* follows; with max_cases_per_dossier <= 0 a group has one plan; the chunk
\* index that ends a plan id is 01 for the first plan of a group and one more
\* for each next one.
C36_ConsecutiveChunks ==
    bb.calls >= 1 =>
        \A i \in DOMAIN bb.plans :
            LET plan == bb.plans[i]
                size == bb.criteria.max_cases_per_dossier
                later == {n \in DOMAIN bb.plans :
                            n > i /\ bb.plans[n].jurisdiction_key = plan.jurisdiction_key}
            IN  /\ \A j, k \in DOMAIN plan.cases :
                      j < k => plan.cases[j].case_id < plan.cases[k].case_id
                /\ \A n \in later : \A j \in DOMAIN plan.cases, k \in DOMAIN bb.plans[n].cases :
                      plan.cases[j].case_id < bb.plans[n].cases[k].case_id
                /\ size > 0 => /\ Len(plan.cases) <= size
                               /\ later # {} => Len(plan.cases) = size
                /\ size <= 0 => later = {}
                /\ SubSeq(plan.plan_id, Len(plan.plan_id) - 1, Len(plan.plan_id))
                       = <<"0", ToString(RankInGroup(i))>>

\* global mode, one case per dossier, two survivors of different jurisdictions:
\* the plans global-01 and global-02, one survivor each, in input order
C36_Witness ==
    /\ bb.calls = 1
    /\ bb.criteria.jurisdiction_mode = "global"
    /\ bb.criteria.max_cases_per_dossier = 1
    /\ Len(bb.plans) = 2
    /\ bb.plans[1].cases = <<bb.candidates[1]>>
    /\ bb.plans[2].cases = <<bb.candidates[2]>>
    /\ bb.candidates[1].jurisdiction # bb.candidates[2].jurisdiction
    /\ bb.plans[1].plan_id[Len(bb.plans[1].plan_id)] = "1"
    /\ bb.plans[2].plan_id[Len(bb.plans[2].plan_id)] = "2"

\* C37: verify_manifest_payload does not raise on malformed manifest content.
\* A verification never ends by an exception; its report has one result per
\* dict row and none for another row, one warning more for each row that is
\* not a dict and for each dict row without an expected hash, a row without an
\* expected hash does not match, and an error is attached only to an entry whose
\* file was there to be hashed.
C37_VerifyTolerates ==
    /\ sg.stage # "verify_raised"
    /\ sg.stage = "verified" =>
          /\ Len(sg.report.artifacts) = Cardinality(DeclaredRows)
          /\ Len(sg.report.warnings) =
                 Len(sg.manifest.warnings)
                   + Cardinality(DOMAIN sg.manifest.artifacts \ DeclaredRows)
                   + Cardinality({i \in DeclaredRows : sg.manifest.artifacts[i].hash = NoHash})
          /\ \A i \in DOMAIN sg.report.artifacts :
                /\ sg.report.artifacts[i].expected_hash = NoHash
                      => ~sg.report.artifacts[i].matches
                /\ sg.report.artifacts[i].error # NULL => sg.report.artifacts[i].exists

\* the jurisdiction the metadata yields (NoStr: none), and the geo bucket the
\* rule derives from it and from the victim country of the metrics
JurisdictionOfMetadata ==
    FirstValue(IF bm.given THEN bm.metadata ELSE << >>,
               <<"jurisdiction", "victim_jurisdiction", "victim_state", "victim_country">>)

GeoBucketByRule ==
    LET jurisdiction == JurisdictionOfMetadata
        dashes == {i \in DOMAIN jurisdiction : jurisdiction[i] = "-"}
    IN  IF jurisdiction # NoStr
        THEN IF dashes # {} /\ jurisdiction[1] # "-"
             THEN StrUpper(SubSeq(jurisdiction, 1,
                                  (CHOOSE i \in dashes : \A j \in dashes : i <= j) - 1))
             ELSE StrUpper(jurisdiction)
        ELSE IF bm.metrics.victim_country # NoStr THEN bm.metrics.victim_country
        ELSE <<"UNKNOWN">>

\* C38: the geo_bucket of the metrics is the upper-cased part of the
\* jurisdiction before its first hyphen when there is such a part, else the
\* upper-cased jurisdiction; the victim country when the metadata yields no
\* jurisdiction; "UNKNOWN" when it yields neither.
C38_GeoBucketRule ==
    bm.stage = "returned" => bm.metrics.geo_bucket = GeoBucketByRule

\* the band the thresholds give an amount: a finite number, or an infinity
\* (above every threshold, or below all of them); anything else is "other"
BandByRule(d) ==
    LET atLeast(threshold) == d.kind = "inf" \/ (d.kind = "finite" /\ d.n >= threshold)
    IN  IF atLeast(250000) THEN "250k-plus"
        ELSE IF atLeast(100000) THEN "100k-250k"
        ELSE IF atLeast(50000) THEN "50k-100k"
        ELSE IF d.kind = "finite" /\ d.n = 0 THEN "unknown"
        ELSE "below-50k"

\* C39: the loss band is a total function of the loss amount.  For every loss
\* amount _parse_loss produces, compute_bundle_metrics returns, and the band is
\* "250k-plus" from 250000, "100k-250k" from 100000, "50k-100k" from 50000,
\* "unknown" for exactly 0 and "below-50k" for every other amount.
C39_LossBandTotal ==
    bm.stage # "input" =>
        /\ bm.stage = "returned"
        /\ bm.metrics.loss_band = BandByRule(bm.metrics.loss_amount_usd)

====
